---- MODULE Spec2Model ----
(***************************************************************************)
(* Model of the pyttsx3 branch of TTSProviderManager (tts_providers.py):   *)
(* _generate_pyttsx3_bytes synthesises into a temporary file, reads the    *)
(* bytes back, sniffs the container format from the leading bytes and      *)
(* either returns the buffer (RIFF), converts it with _convert_aiff_to_wav *)
(* (FORM) or fails (anything else).                                        *)
(*                                                                         *)
(* A byte buffer is a sequence of integers 0..255.  Offsets are 0-based as *)
(* in the Python source; Slice is Python's b[start:end].  The WAV writer   *)
(* is Python's wave module on a little-endian host (no byte swap of the    *)
(* frames).                                                                *)
(***************************************************************************)
EXTENDS Integers, Sequences, FiniteSets, TLC

VARIABLES
    engine_out,       \* what engine.save_to_file/runAndWait will do for this request
    pc,               \* position inside _generate_pyttsx3_bytes
    temp_exists,      \* whether the file at temp_path exists
    temp_content,     \* the bytes of the file at temp_path
    audio_data,       \* the bytes read back from the file (line 290)
    tag,              \* the format branch taken at lines 296-314
    offset,           \* the chunk cursor of _convert_aiff_to_wav
    conv_audio_data,  \* the local audio_data of _convert_aiff_to_wav (line 365)
    save_error,       \* the exception travelling to the except clauses
    result            \* what the call returned or raised

\* TTSProviderManager: construction, generate_speech and the comparison loops
VARIABLES
    init_raises,          \* the providers whose initializer raises (environment)
    mkdir_raises,         \* whether Path("static/audio").mkdir raises (environment)
    mgr_pc,               \* position inside TTSProviderManager.__init__
    init_next,            \* index of the next entry of self.providers to initialise
    init_log,             \* the lines printed by _init_providers
    active_providers,     \* the keys of self.active_providers, in insertion order
    language_mapping,     \* self.language_mapping
    supported_languages,  \* self.supported_languages
    gs_pc,                \* position inside generate_speech
    gs_caller,            \* who awaits generate_speech: a request or a comparison loop
    gs_req,               \* the arguments provider and language of generate_speech
    lang_code,            \* lang_code of generate_speech (line 119)
    gs_result,            \* what generate_speech returned or raised
    synth_calls,          \* the synthesis primitives invoked for the current request
    cmp_pc,               \* position inside compare_providers or the /api/tts loop
    cmp_api,              \* which of the two loops runs
    cmp_todo,             \* the providers the loop has still to visit
    cmp_results           \* the results dict of the loop

\* concurrent calls of _convert_aiff_to_wav on one manager
VARIABLES
    cv_in,      \* aiff_data of each call
    cv_pc,      \* position of each call inside _convert_aiff_to_wav
    cv_offset,  \* the local offset, one per frame
    cv_out      \* what each call returned or raised

\* main.py: the module globals and the handlers of the event loop
VARIABLES
    tts_manager,         \* the global tts_manager: 0 is None, n the n-th instance
    instances,           \* how many TTSProviderManager objects were constructed
    http_got,            \* the instances initialize_services returned to HTTP handlers
    http_last,           \* how the last HTTP handler ended
    active_connections,  \* the global list active_connections
    ws_pc,               \* position of each websocket_endpoint call
    ws_mgr,              \* the local tts_manager of each websocket_endpoint call
    ws_received,         \* the client messages receive_text returned, per connection
    ws_sent              \* the messages send_text delivered, per connection

\* voice_agents.py: one VoiceAgent and its calls of process_message
VARIABLES
    openai_available,      \* self.openai_available (lines 31-40)
    ag_language,           \* the language the agent and its calls are given
    conversation_history,  \* self.conversation_history
    pm_pc,                 \* position inside process_message
    pm_turn,               \* how many calls of process_message were made
    pm_text,               \* the argument text of the current call
    hist_before,           \* len(conversation_history) when the call was entered
    llm_messages,          \* the list messages handed to the chat completion
    llm_attempts,          \* the chat completions attempted by the current call
    llm_result,            \* what _generate_llm_response returned or raised
    pm_result              \* the dict process_message returned

\* voice_agent.py and voice_agents.py: the keyword rules applied to one text
VARIABLES
    in_text,      \* the text, a sequence of characters
    intent,       \* what _analyze_intent returned
    fb_category   \* the branch _generate_fallback_response took

call_vars == <<engine_out, pc, temp_exists, temp_content, audio_data, tag, offset,
               conv_audio_data, save_error, result>>

mgr_vars == <<init_raises, mkdir_raises, mgr_pc, init_next, init_log, active_providers,
              language_mapping, supported_languages, gs_pc, gs_caller, gs_req,
              lang_code, gs_result, synth_calls, cmp_pc, cmp_api, cmp_todo, cmp_results>>

conc_vars == <<cv_in, cv_pc, cv_offset, cv_out>>

srv_vars == <<tts_manager, instances, http_got, http_last, active_connections, ws_pc,
              ws_mgr, ws_received, ws_sent>>

agent_vars == <<openai_available, ag_language, conversation_history, pm_pc, pm_turn,
                pm_text, hist_before, llm_messages, llm_attempts, llm_result, pm_result>>

intent_vars == <<in_text, intent, fb_category>>

app_vars == <<agent_vars, intent_vars>>

\* everything outside the manager
other_vars == <<conc_vars, srv_vars, app_vars>>

\* everything outside one call of _generate_pyttsx3_bytes
outer_vars == <<mgr_vars, other_vars>>

vars == <<call_vars, outer_vars>>

----------------------------------------------------------------------------
(* Bounds of the model *)

\* longest buffer built from HeadAlphabet alone
HeadLen == 4
\* longest arbitrary tail appended to a four-byte head
MaxTail == 6
\* longest raw sample sequence
MaxSamples == 4
\* largest number of well-formed chunks in front of the SSND chunk
MaxPre == 2
\* longest payload of a chunk in front of the SSND chunk
MaxPrePayload == 2

(* Program constants *)

nchannels == 1
sampwidth == 2
framerate == 22050

----------------------------------------------------------------------------
(* Bytes and byte strings *)

RIFF == <<82, 73, 70, 70>>
FORM == <<70, 79, 82, 77>>
SSND == <<83, 83, 78, 68>>
COMM == <<67, 79, 77, 77>>
AIFF == <<65, 73, 70, 70>>
WAVE == <<87, 65, 86, 69>>
FMT  == <<102, 109, 116, 32>>
DATA == <<100, 97, 116, 97>>

Min(a, b) == IF a <= b THEN a ELSE b

\* Python b[start:end] for 0 <= start, 0 <= end: clamped to the buffer
Slice(b, start, end) == SubSeq(b, start + 1, Min(end, Len(b)))

\* mutant: the prefix test written as an equality test
StartsWithExact(b, p) == b = p

\* bytes.startswith
StartsWith(b, p) == Len(b) >= Len(p) /\ SubSeq(b, 1, Len(p)) = p

\* struct.unpack('>I', four bytes)
UnpackBE32(b) == b[1] * 16777216 + b[2] * 65536 + b[3] * 256 + b[4]

\* struct.pack('<L', n) and struct.pack('<H', n) as the wave module writes them
PackLE32(n) == <<n % 256, (n \div 256) % 256, (n \div 65536) % 256,
                 (n \div 16777216) % 256>>
PackLE16(n) == <<n % 256, (n \div 256) % 256>>

----------------------------------------------------------------------------
(* Results and exceptions.  msg is the chain of message prefixes, outermost *)
(* first, as the f-strings build it; detail is the bytes a message quotes.  *)

NoError == [msg |-> <<>>, detail |-> <<>>]
Error(m, d) == [msg |-> m, detail |-> d]

NoResult == [kind |-> "none", data |-> <<>>, msg |-> <<>>, detail |-> <<>>]
Returned(d) == [kind |-> "ok", data |-> d, msg |-> <<>>, detail |-> <<>>]

\* mutant: the exception is swallowed and a stub buffer is returned
RaisedSubstitutes(e) == [kind |-> "ok", data |-> <<82, 73, 70, 70>>, msg |-> <<>>, detail |-> <<>>]

\* a raise statement with the exception e
Raised(e) == [kind |-> "error", data |-> <<>>, msg |-> e.msg, detail |-> e.detail]

----------------------------------------------------------------------------
(* The format sniffer: the if/elif/else at lines 296-314 *)

Upper(c) == IF c \in 97..122 THEN c - 32 ELSE c
UpperAll(b) == [i \in 1..Len(b) |-> Upper(b[i])]

\* mutant: the magic bytes compared without regard to case
ClassifyIgnoreCase(b) ==
    IF StartsWith(UpperAll(b), RIFF) THEN "Wav"
    ELSE IF StartsWith(UpperAll(b), FORM) THEN "Aiff"
    ELSE "Unknown"

Classify(b) ==
    IF StartsWith(b, RIFF) THEN "Wav"
    ELSE IF StartsWith(b, FORM) THEN "Aiff"
    ELSE "Unknown"

----------------------------------------------------------------------------
(* The WAV writer: wave.open(buffer, 'w') with the three setters and one    *)
(* writeframes call.  The header is first written for whole frames only    *)
(* and patched when the bytes written differ from that length.             *)

\* mutant: the byte rate computed without the sample width
WavHeaderBadByteRate(datalength) ==
    RIFF \o PackLE32(36 + datalength) \o WAVE \o FMT \o PackLE32(16)
         \o PackLE16(1) \o PackLE16(nchannels) \o PackLE32(framerate)
         \o PackLE32(nchannels * framerate)
         \o PackLE16(nchannels * sampwidth) \o PackLE16(sampwidth * 8)
         \o DATA \o PackLE32(datalength)

\* mutant: the big-endian container id RIFX written instead of RIFF
WavHeaderRifx(datalength) ==
    <<82, 73, 70, 88>> \o PackLE32(36 + datalength) \o WAVE \o FMT \o PackLE32(16)
         \o PackLE16(1) \o PackLE16(nchannels) \o PackLE32(framerate)
         \o PackLE32(nchannels * framerate * sampwidth)
         \o PackLE16(nchannels * sampwidth) \o PackLE16(sampwidth * 8)
         \o DATA \o PackLE32(datalength)

WavHeader(datalength) ==
    RIFF \o PackLE32(36 + datalength) \o WAVE \o FMT \o PackLE32(16)
         \o PackLE16(1) \o PackLE16(nchannels) \o PackLE32(framerate)
         \o PackLE32(nchannels * framerate * sampwidth)
         \o PackLE16(nchannels * sampwidth) \o PackLE16(sampwidth * 8)
         \o DATA \o PackLE32(datalength)

\* mutant: the header written for whole frames is never patched
EncodeWavNoPatch(samples) ==
    LET nframes == Len(samples) \div (nchannels * sampwidth)
    IN  WavHeader(nframes * nchannels * sampwidth) \o samples

EncodeWav(samples) ==
    LET datawritten == Len(samples)
        nframes     == datawritten \div (nchannels * sampwidth)
        initlength  == nframes * nchannels * sampwidth
        datalength  == IF initlength # datawritten THEN datawritten ELSE initlength
    IN  WavHeader(datalength) \o samples

----------------------------------------------------------------------------
(* The chunk walk of _convert_aiff_to_wav, one loop iteration at a time *)

ChunkId(b, off) == Slice(b, off, off + 4)
ChunkSize(b, off) == UnpackBE32(Slice(b, off + 4, off + 8))

\* mutant: the loop runs while four bytes are left
InLoopLoose(b, off) == off < Len(b) - 4

\* mutant: the loop also runs when exactly eight bytes are left
InLoopInclusive(b, off) == off <= Len(b) - 8

\* the loop condition at line 356
InLoop(b, off) == off < Len(b) - 8

\* mutant: the slice starts at the chunk data, sub-header included
SoundSliceNoSubHeader(b, off) == Slice(b, off + 8, off + 8 + ChunkSize(b, off))

\* lines 363-365: the slice taken from an SSND chunk at off
SoundSlice(b, off) == Slice(b, off + 16, off + 8 + ChunkSize(b, off))

\* mutant: an SSND chunk is used only when no chunk header follows it
WalkStepLastWins(b, off) ==
    IF ~InLoop(b, off) THEN "exhausted"
    ELSE IF ChunkId(b, off) = SSND /\ ~InLoop(b, off + 8 + ChunkSize(b, off)) THEN "found"
    ELSE "advance"

\* mutant: the cursor advances by the declared size alone
NextOffsetSizeOnly(b, off) == off + ChunkSize(b, off)

\* mutant: odd chunk sizes padded to the next even offset
NextOffsetPadded(b, off) == off + 8 + ChunkSize(b, off) + (ChunkSize(b, off) % 2)

\* line 377
NextOffset(b, off) == off + 8 + ChunkSize(b, off)

WalkStep(b, off) ==
    IF ~InLoop(b, off) THEN "exhausted"
    ELSE IF ChunkId(b, off) = SSND THEN "found"
    ELSE "advance"

\* the offset at which the walk started at off ends, and how it ends
RECURSIVE WalkFrom(_, _)
WalkFrom(b, off) ==
    IF WalkStep(b, off) = "advance" THEN WalkFrom(b, NextOffset(b, off))
    ELSE [step |-> WalkStep(b, off), at |-> off]

\* _convert_aiff_to_wav as a function of its argument
ConvertAiffToWav(aiff_data) ==
    IF ~StartsWith(aiff_data, FORM)
    THEN Raised(Error(<<"Not a valid AIFF file">>, <<>>))
    ELSE LET w == WalkFrom(aiff_data, 12)
         IN  IF w.step = "found"
             THEN Returned(EncodeWav(SoundSlice(aiff_data, w.at)))
             ELSE Raised(Error(<<"No sound data found in AIFF file">>, <<>>))

\* lines 308-310: the except clause around the conversion
ConversionFailed(e) == Error(<<"AIFF to WAV conversion failed">> \o e.msg, e.detail)

\* mutant: the message quotes the whole buffer
UnknownFormatWhole(b) == Error(<<"Unknown audio format">>, b)

\* line 314
UnknownFormat(b) == Error(<<"Unknown audio format">>, Slice(b, 0, 8))

\* line 318
NoAudioFile == Error(<<"pyttsx3 failed to create audio file">>, <<>>)

\* line 327: the outer except clause
Pyttsx3Error(e) == Error(<<"pyttsx3 error">> \o e.msg, e.detail)

\* lines 287-318 as a function of the bytes found in the temporary file
NormalizeToWav(b) ==
    IF Len(b) = 0 THEN Raised(NoAudioFile)
    ELSE IF Classify(b) = "Wav" THEN Returned(b)
    ELSE IF Classify(b) = "Aiff"
         THEN LET c == ConvertAiffToWav(b)
              IN  IF c.kind = "ok" THEN c ELSE Raised(ConversionFailed(c))
    ELSE Raised(UnknownFormat(b))

----------------------------------------------------------------------------
(* The files the synthesis engine can leave at temp_path.  The engine is an *)
(* external collaborator: any byte string is possible, and the families     *)
(* below cover every shape the format branch and the chunk walk tell apart. *)

SeqsUpTo(S, n) == UNION {[1..k -> S] : k \in 0..n}

RECURSIVE Concat(_)
Concat(ss) == IF ss = <<>> THEN <<>> ELSE Head(ss) \o Concat(Tail(ss))

\* struct.pack('>I', n): the size field of an AIFF chunk header
PackBE32(n) == <<(n \div 16777216) % 256, (n \div 65536) % 256,
                 (n \div 256) % 256, n % 256>>

Chunk(id, declared, payload) == id \o PackBE32(declared) \o payload

\* the 12-byte FORM header: "FORM", a size field the walk never reads, "AIFF"
FormHeader == FORM \o PackBE32(0) \o AIFF

\* the 8-byte offset/blocksize sub-header of an SSND chunk
SubHeader == <<0, 0, 0, 0, 0, 0, 0, 0>>

HeadAlphabet == {70, 73, 77, 79, 82}
TailAlphabet == {0, 83}
SampleBytes  == {1, 255}

Samples == SeqsUpTo(SampleBytes, MaxSamples)

\* a minimal AIFF buffer holding exactly one SSND chunk with the samples s
WrapAsMinimalAiff(s) == FormHeader \o Chunk(SSND, Len(s) + 8, SubHeader \o s)

\* a chunk other than SSND whose declared size is its payload length
PreChunks == {Chunk(COMM, Len(p), p) : p \in SeqsUpTo({7}, MaxPrePayload)}
PreSeqs == {Concat(cs) : cs \in SeqsUpTo(PreChunks, MaxPre)}

\* every buffer of at most HeadLen bytes over the letters of RIFF and FORM
HeadBuffers == SeqsUpTo(HeadAlphabet, HeadLen)

\* a four-byte head followed by arbitrary bytes
TailBuffers ==
    {h \o t : h \in {RIFF, FORM, <<82, 73, 70, 88>>, <<102, 111, 114, 109>>},
              t \in SeqsUpTo(TailAlphabet, MaxTail)}

\* files that already are WAV, and WAV-tagged files holding AIFF chunks
WavBuffers ==
    {EncodeWav(s) : s \in Samples}
        \cup {RIFF \o SubSeq(WrapAsMinimalAiff(s), 5, Len(WrapAsMinimalAiff(s))) :
                 s \in Samples}

\* well-formed AIFF: chunks with exact sizes, then one SSND chunk
GoodAiffBuffers ==
    {FormHeader \o pre \o Chunk(SSND, Len(s) + 8, SubHeader \o s) :
        pre \in PreSeqs, s \in Samples}

\* an SSND chunk whose declared size is wrong, with or without bytes after it
BadSsndSizes(s) == {0, 7, Len(s) + 9, 300}
BadSsndBuffers ==
    UNION {{FormHeader \o pre \o Chunk(SSND, d, SubHeader \o s) \o t :
               pre \in {<<>>} \cup PreChunks,
               d \in BadSsndSizes(s),
               t \in {<<>>, <<0>>}} : s \in Samples}

\* a chunk other than SSND whose declared size is wrong, alone or before SSND
BadPreSizes(p) == {Len(p) + 1, Len(p) + 9, 300}
BadPreBuffers ==
    UNION {{FormHeader \o Chunk(COMM, d, p) \o rest :
               d \in BadPreSizes(p),
               rest \in {<<>>} \cup {Chunk(SSND, Len(s) + 8, SubHeader \o s) : s \in Samples}} :
           p \in SeqsUpTo({7}, MaxPrePayload)}

\* AIFF without any SSND chunk, some ending inside a chunk header
NoSsndBuffers ==
    {FormHeader \o pre \o t :
        pre \in PreSeqs,
        t \in {<<>>, SSND, SubSeq(Chunk(SSND, 8, <<>>), 1, 7), Chunk(SSND, 0, <<>>),
               Chunk(SSND, 8, <<>>)}}

\* AIFF with two SSND chunks of exact sizes, the second holding other samples
SecondSamples == {<<255>>, <<1, 1>>}
TwoSsndBuffers ==
    {FormHeader \o pre \o Chunk(SSND, Len(s) + 8, SubHeader \o s)
                \o Chunk(SSND, Len(s2) + 8, SubHeader \o s2) :
        pre \in {<<>>} \cup PreChunks, s \in Samples, s2 \in SecondSamples}

Buffers ==
    HeadBuffers \cup TailBuffers \cup WavBuffers \cup GoodAiffBuffers
        \cup BadSsndBuffers \cup BadPreBuffers \cup NoSsndBuffers
        \cup TwoSsndBuffers

EngineOutcomes ==
    {[mode |-> "write", bytes |-> b] : b \in Buffers}
        \cup {[mode |-> "raise", bytes |-> <<>>], [mode |-> "remove", bytes |-> <<>>]}

----------------------------------------------------------------------------
(* TTSProviderManager.__init__: the tables it builds, lines 17-50 *)

\* the keys of self.providers in insertion order, lines 18-22
ProviderOrder == <<"openai", "google", "pyttsx3">>

\* lines 24-31
SupportedLanguagesTable ==
    [be |-> "Belarusian", pl |-> "Polish", lt |-> "Lithuanian", lv |-> "Latvian",
     et |-> "Estonian", en |-> "English"]

SameCodes == [be |-> "be", pl |-> "pl", lt |-> "lt", lv |-> "lv", et |-> "et", en |-> "en"]

\* lines 34-50
LanguageMappingTable ==
    [openai     |-> SameCodes,
     google     |-> [be |-> "en-US", pl |-> "pl-PL", lt |-> "lt-LT", lv |-> "lv-LV",
                     et |-> "et-EE", en |-> "en-US"],
     pyttsx3    |-> SameCodes,
     coqui      |-> SameCodes,
     elevenlabs |-> SameCodes]

\* mutant: a key that is missing yields English
DictGetDefaultEnglish(d, k, default) == IF k \in DOMAIN d THEN d[k] ELSE "en"

\* dict.get(k, default)
DictGet(d, k, default) == IF k \in DOMAIN d THEN d[k] ELSE default

\* a dict kept as the sequence of its (key, value) pairs in insertion order
DictKeys(d) == [i \in 1..Len(d) |-> d[i][1]]
DictHas(d, k) == \E i \in 1..Len(d) : d[i][1] = k
DictSet(d, k, v) ==
    IF DictHas(d, k) THEN [i \in 1..Len(d) |-> IF d[i][1] = k THEN <<k, v>> ELSE d[i]]
    ELSE Append(d, <<k, v>>)

InSeq(s, x) == \E i \in 1..Len(s) : s[i] = x

\* the manager while it serves one pyttsx3 request: every initializer has
\* succeeded and generate_speech awaits _generate_pyttsx3_bytes at line 126
NumCalls == 2
Calls == 1..NumCalls

\* no call of _convert_aiff_to_wav is traced
ConcIdle ==
    /\ cv_in = [c \in Calls |-> <<>>]
    /\ cv_pc = [c \in Calls |-> "idle"]
    /\ cv_offset = [c \in Calls |-> 0]
    /\ cv_out = [c \in Calls |-> NoResult]

NumConns == 2
Conns == 1..NumConns

\* main.py lines 41 and 50 at import: no manager, no connection, no handler
ServerIdle ==
    /\ tts_manager = 0
    /\ instances = 0
    /\ http_got = {}
    /\ http_last = "none"
    /\ active_connections = <<>>
    /\ ws_pc = [c \in Conns |-> "new"]
    /\ ws_mgr = [c \in Conns |-> 0]
    /\ ws_received = [c \in Conns |-> <<>>]
    /\ ws_sent = [c \in Conns |-> <<>>]

\* lines 24-28 of voice_agents.py: an agent on which nothing was called yet
AgentNew ==
    /\ conversation_history = <<>>
    /\ pm_pc = "idle"
    /\ pm_turn = 0
    /\ pm_text = <<"text", "str", 0>>
    /\ hist_before = 0
    /\ llm_messages = <<>>
    /\ llm_attempts = 0
    /\ llm_result = [kind |-> "none", value |-> <<"none", "none", 0>>]
    /\ pm_result = [type |-> "none", text |-> <<"none", "none", 0>>]

\* no text is being classified
IntentIdle ==
    /\ in_text = <<>>
    /\ intent = "none"
    /\ fb_category = "none"

\* no VoiceAgent is in use and no text is being classified
AppIdle ==
    /\ openai_available = FALSE
    /\ ag_language = "en"
    /\ AgentNew
    /\ IntentIdle

MgrServing ==
    /\ init_raises = {}
    /\ mkdir_raises = FALSE
    /\ mgr_pc = "ready"
    /\ init_next = Len(ProviderOrder) + 1
    /\ init_log = <<<<"openai", "ok">>, <<"google", "ok">>, <<"pyttsx3", "ok">>>>
    /\ active_providers = ProviderOrder
    /\ language_mapping = LanguageMappingTable
    /\ supported_languages = SupportedLanguagesTable
    /\ gs_pc = "synth"
    /\ gs_caller = "direct"
    /\ gs_req = [provider |-> "pyttsx3", language |-> "en"]
    /\ lang_code = "en"
    /\ gs_result = NoResult
    /\ synth_calls = <<"pyttsx3">>
    /\ cmp_pc = "idle"
    /\ cmp_api = "none"
    /\ cmp_todo = <<>>
    /\ cmp_results = <<>>

----------------------------------------------------------------------------
(* _generate_pyttsx3_bytes, lines 262-327 *)

Init ==
    /\ MgrServing
    /\ ConcIdle
    /\ ServerIdle
    /\ AppIdle
    /\ engine_out \in EngineOutcomes
    /\ pc = "start"
    /\ temp_exists = FALSE
    /\ temp_content = <<>>
    /\ audio_data = <<>>
    /\ tag = "none"
    /\ offset = 0
    /\ conv_audio_data = <<>>
    /\ save_error = NoError
    /\ result = NoResult

\* lines 278-279: NamedTemporaryFile(delete=False) leaves an empty file
CreateTempFile ==
    /\ UNCHANGED outer_vars
    /\ pc = "start"
    /\ temp_exists' = TRUE
    /\ temp_content' = <<>>
    /\ pc' = "save"
    /\ UNCHANGED <<engine_out, audio_data, tag, offset, conv_audio_data, save_error, result>>

\* lines 283-284: the engine writes the file
SaveToFile ==
    /\ UNCHANGED outer_vars
    /\ pc = "save"
    /\ engine_out.mode = "write"
    /\ temp_content' = engine_out.bytes
    /\ pc' = "check"
    /\ UNCHANGED <<engine_out, temp_exists, audio_data, tag, offset, conv_audio_data,
                   save_error, result>>

\* lines 283-284: the engine removes the file instead of writing it
SaveRemovesFile ==
    /\ UNCHANGED outer_vars
    /\ pc = "save"
    /\ engine_out.mode = "remove"
    /\ temp_exists' = FALSE
    /\ temp_content' = <<>>
    /\ pc' = "check"
    /\ UNCHANGED <<engine_out, audio_data, tag, offset, conv_audio_data, save_error, result>>

\* lines 283-284 raise: control goes to the except clause at line 320
SaveRaises ==
    /\ UNCHANGED outer_vars
    /\ pc = "save"
    /\ engine_out.mode = "raise"
    /\ save_error' = Error(<<"engine error">>, <<>>)
    /\ pc' = "cleanup"
    /\ UNCHANGED <<engine_out, temp_exists, temp_content, audio_data, tag, offset,
                   conv_audio_data, result>>

\* mutant: the file is left in place after the read
UnlinkAfterReadSkipped(exists) == exists

\* line 293: os.unlink(temp_path); whether the file exists afterwards
UnlinkAfterRead(exists) == FALSE

\* lines 287-293: the file has content: read it and unlink it
ReadFile ==
    /\ UNCHANGED outer_vars
    /\ pc = "check"
    /\ temp_exists /\ Len(temp_content) > 0
    /\ audio_data' = temp_content
    /\ temp_exists' = UnlinkAfterRead(temp_exists)
    /\ temp_content' = <<>>
    /\ pc' = "sniff"
    /\ UNCHANGED <<engine_out, tag, offset, conv_audio_data, save_error, result>>

\* lines 315-318: no file or an empty file; unlink raises when there is no file
NoFile ==
    /\ UNCHANGED outer_vars
    /\ pc = "check"
    /\ ~(temp_exists /\ Len(temp_content) > 0)
    /\ save_error' = IF temp_exists THEN NoAudioFile
                     ELSE Error(<<"FileNotFoundError">>, <<>>)
    /\ temp_exists' = FALSE
    /\ temp_content' = <<>>
    /\ pc' = "cleanup"
    /\ UNCHANGED <<engine_out, audio_data, tag, offset, conv_audio_data, result>>

\* lines 296-298: RIFF: the buffer is returned as it is
SniffWav ==
    /\ UNCHANGED outer_vars
    /\ pc = "sniff"
    /\ Classify(audio_data) = "Wav"
    /\ tag' = "Wav"
    /\ result' = Returned(audio_data)
    /\ pc' = "done"
    /\ UNCHANGED <<engine_out, temp_exists, temp_content, audio_data, offset,
                   conv_audio_data, save_error>>

\* lines 299-304 and 351-355: FORM: enter _convert_aiff_to_wav
SniffAiff ==
    /\ UNCHANGED outer_vars
    /\ pc = "sniff"
    /\ Classify(audio_data) = "Aiff"
    /\ tag' = "Aiff"
    /\ IF StartsWith(audio_data, FORM)
       THEN /\ offset' = 12
            /\ pc' = "walk"
            /\ UNCHANGED save_error
       ELSE /\ save_error' = ConversionFailed(Error(<<"Not a valid AIFF file">>, <<>>))
            /\ pc' = "cleanup"
            /\ UNCHANGED offset
    /\ UNCHANGED <<engine_out, temp_exists, temp_content, audio_data, conv_audio_data,
                   result>>

\* lines 311-314: anything else
SniffUnknown ==
    /\ UNCHANGED outer_vars
    /\ pc = "sniff"
    /\ Classify(audio_data) = "Unknown"
    /\ tag' = "Unknown"
    /\ save_error' = UnknownFormat(audio_data)
    /\ pc' = "cleanup"
    /\ UNCHANGED <<engine_out, temp_exists, temp_content, audio_data, offset,
                   conv_audio_data, result>>

\* lines 356-360 and 377: a chunk that is not SSND is skipped
WalkAdvance ==
    /\ UNCHANGED outer_vars
    /\ pc = "walk"
    /\ WalkStep(audio_data, offset) = "advance"
    /\ offset' = NextOffset(audio_data, offset)
    /\ UNCHANGED <<engine_out, pc, temp_exists, temp_content, audio_data, tag,
                   conv_audio_data, save_error, result>>

\* lines 360-375 and 305-306: the SSND chunk is sliced, encoded and returned
WalkFound ==
    /\ UNCHANGED outer_vars
    /\ pc = "walk"
    /\ WalkStep(audio_data, offset) = "found"
    /\ conv_audio_data' = SoundSlice(audio_data, offset)
    /\ result' = Returned(EncodeWav(SoundSlice(audio_data, offset)))
    /\ pc' = "done"
    /\ UNCHANGED <<engine_out, temp_exists, temp_content, audio_data, tag, offset,
                   save_error>>

\* lines 356, 379 and 308-310: the loop ends without an SSND chunk
WalkExhausted ==
    /\ UNCHANGED outer_vars
    /\ pc = "walk"
    /\ WalkStep(audio_data, offset) = "exhausted"
    /\ save_error' = ConversionFailed(Error(<<"No sound data found in AIFF file">>, <<>>))
    /\ pc' = "cleanup"
    /\ UNCHANGED <<engine_out, temp_exists, temp_content, audio_data, tag, offset,
                   conv_audio_data, result>>

\* lines 320-327: unlink the file if it is still there, re-raise, wrap
Cleanup ==
    /\ UNCHANGED outer_vars
    /\ pc = "cleanup"
    /\ temp_exists' = FALSE
    /\ temp_content' = <<>>
    /\ result' = Raised(Pyttsx3Error(save_error))
    /\ pc' = "failed"
    /\ UNCHANGED <<engine_out, audio_data, tag, offset, conv_audio_data, save_error>>

Next ==
    \/ CreateTempFile
    \/ SaveToFile
    \/ SaveRemovesFile
    \/ SaveRaises
    \/ ReadFile
    \/ NoFile
    \/ SniffWav
    \/ SniffAiff
    \/ SniffUnknown
    \/ WalkAdvance
    \/ WalkFound
    \/ WalkExhausted
    \/ Cleanup

Spec == Init /\ [][Next]_vars

\* the call is straight-line synchronous code: a statement that can run, runs
SpecFair == Spec /\ WF_vars(Next)

----------------------------------------------------------------------------
(* TTSProviderManager: construction (lines 17-67), generate_speech (lines   *)
(* 113-128), compare_providers (lines 452-463) and the comparison loop of  *)
(* /api/tts (main.py lines 293-310)                                        *)

RequestProviders == {"openai", "google", "pyttsx3", "coqui", "azure"}
RequestLanguages == {"en", "be", "xx"}

\* what the cloud synthesis calls give back
CloudAudio == EncodeWav(<<1, 255>>)

\* the files the engine leaves while the manager is exercised as a whole
ManagerEngineOutcomes ==
    {[mode |-> "write", bytes |-> b] :
        b \in {EncodeWav(<<1, 255>>),
               WrapAsMinimalAiff(<<1, 255>>),
               FormHeader \o Chunk(COMM, 1, <<7>>) \o Chunk(SSND, 9, SubHeader \o <<255>>),
               FORM,
               FormHeader,
               FormHeader \o Chunk(COMM, 1, <<7>>) \o Chunk(COMM, 0, <<>>),
               FormHeader \o Chunk(COMM, 300, <<7>>) \o Chunk(SSND, 9, SubHeader \o <<255>>),
               <<82, 73, 70>>,
               <<>>}}
        \cup {[mode |-> "raise", bytes |-> <<>>], [mode |-> "remove", bytes |-> <<>>]}

NoOutcome == [mode |-> "none", bytes |-> <<>>]

\* no call of _generate_pyttsx3_bytes is running
CallIdle ==
    /\ engine_out = NoOutcome
    /\ pc = "idle"
    /\ temp_exists = FALSE
    /\ temp_content = <<>>
    /\ audio_data = <<>>
    /\ tag = "none"
    /\ offset = 0
    /\ conv_audio_data = <<>>
    /\ save_error = NoError
    /\ result = NoResult

\* the call variables as a call that meets the engine outcome o finds them
CallEnters(o, at) ==
    /\ engine_out' = o
    /\ pc' = at
    /\ temp_exists' = FALSE
    /\ temp_content' = <<>>
    /\ audio_data' = <<>>
    /\ tag' = "none"
    /\ offset' = 0
    /\ conv_audio_data' = <<>>
    /\ save_error' = NoError
    /\ result' = NoResult

InitManager ==
    /\ CallIdle
    /\ ConcIdle
    /\ ServerIdle
    /\ AppIdle
    /\ init_raises \in SUBSET {"openai", "google", "pyttsx3"}
    /\ mkdir_raises \in BOOLEAN
    /\ mgr_pc = "new"
    /\ init_next = 0
    /\ init_log = <<>>
    /\ active_providers = <<>>
    /\ language_mapping = <<>>
    /\ supported_languages = <<>>
    /\ gs_pc = "idle"
    /\ gs_caller = "none"
    /\ gs_req = [provider |-> "none", language |-> "none"]
    /\ lang_code = "none"
    /\ gs_result = NoResult
    /\ synth_calls = <<>>
    /\ cmp_pc = "idle"
    /\ cmp_api = "none"
    /\ cmp_todo = <<>>
    /\ cmp_results = <<>>

\* lines 17-53 and 60: the tables are built and active_providers starts empty
MgrBegin ==
    /\ UNCHANGED other_vars
    /\ mgr_pc = "new"
    /\ supported_languages' = SupportedLanguagesTable
    /\ language_mapping' = LanguageMappingTable
    /\ active_providers' = <<>>
    /\ init_next' = 1
    /\ mgr_pc' = "init"
    /\ UNCHANGED <<call_vars, init_raises, mkdir_raises, init_log, gs_pc, gs_caller, gs_req,
                   lang_code, gs_result, synth_calls, cmp_pc, cmp_api, cmp_todo,
                   cmp_results>>

\* mutant: a failing initializer empties active_providers
AfterInitClears(active, p, raised) == IF raised THEN <<>> ELSE Append(active, p)

\* lines 63-67: one turn of the loop over self.providers
AfterInit(active, p, raised) == IF raised THEN active ELSE Append(active, p)

\* lines 62-65: the initializer returns
InitProviderOk ==
    /\ UNCHANGED other_vars
    /\ mgr_pc = "init"
    /\ init_next <= Len(ProviderOrder)
    /\ ProviderOrder[init_next] \notin init_raises
    /\ active_providers' = AfterInit(active_providers, ProviderOrder[init_next], FALSE)
    /\ init_log' = Append(init_log, <<ProviderOrder[init_next], "ok">>)
    /\ init_next' = init_next + 1
    /\ UNCHANGED <<call_vars, init_raises, mkdir_raises, mgr_pc, language_mapping,
                   supported_languages, gs_pc, gs_caller, gs_req, lang_code, gs_result,
                   synth_calls, cmp_pc, cmp_api, cmp_todo, cmp_results>>

\* lines 62-67: the initializer raises and the except clause prints
InitProviderFails ==
    /\ UNCHANGED other_vars
    /\ mgr_pc = "init"
    /\ init_next <= Len(ProviderOrder)
    /\ ProviderOrder[init_next] \in init_raises
    /\ active_providers' = AfterInit(active_providers, ProviderOrder[init_next], TRUE)
    /\ init_log' = Append(init_log, <<ProviderOrder[init_next], "failed">>)
    /\ init_next' = init_next + 1
    /\ UNCHANGED <<call_vars, init_raises, mkdir_raises, mgr_pc, language_mapping,
                   supported_languages, gs_pc, gs_caller, gs_req, lang_code, gs_result,
                   synth_calls, cmp_pc, cmp_api, cmp_todo, cmp_results>>

\* line 56: the audio directory is created and the constructor returns
MgrFinish ==
    /\ UNCHANGED other_vars
    /\ mgr_pc = "init"
    /\ init_next > Len(ProviderOrder)
    /\ mgr_pc' = IF mkdir_raises THEN "broken" ELSE "ready"
    /\ UNCHANGED <<call_vars, init_raises, mkdir_raises, init_next, init_log,
                   active_providers, language_mapping, supported_languages, gs_pc,
                   gs_caller, gs_req, lang_code, gs_result, synth_calls, cmp_pc, cmp_api,
                   cmp_todo, cmp_results>>

\* lines 105-107
GetAvailableProviders == active_providers

\* no request is being served
Quiescent ==
    /\ mgr_pc = "ready"
    /\ cmp_pc \in {"idle", "done"}
    /\ gs_pc \in {"idle", "returned", "raised"}

\* a caller (the /api/tts handler with a provider, or process_message) awaits
\* generate_speech(text, language, provider)
GsCall ==
    /\ UNCHANGED other_vars
    /\ Quiescent
    /\ \E p \in RequestProviders, l \in RequestLanguages :
           gs_req' = [provider |-> p, language |-> l]
    /\ gs_caller' = "direct"
    /\ gs_pc' = "check"
    /\ lang_code' = "none"
    /\ gs_result' = NoResult
    /\ synth_calls' = <<>>
    /\ cmp_pc' = "idle"
    /\ cmp_api' = "none"
    /\ cmp_todo' = <<>>
    /\ cmp_results' = <<>>
    /\ CallEnters(NoOutcome, "idle")
    /\ UNCHANGED <<init_raises, mkdir_raises, mgr_pc, init_next, init_log,
                   active_providers, language_mapping, supported_languages>>

\* lines 115-116
GsUnavailable ==
    /\ UNCHANGED other_vars
    /\ gs_pc = "check"
    /\ ~InSeq(active_providers, gs_req.provider)
    /\ gs_result' = Raised(Error(<<"Provider", gs_req.provider, "not available">>, <<>>))
    /\ gs_pc' = "raised"
    /\ UNCHANGED <<call_vars, init_raises, mkdir_raises, mgr_pc, init_next, init_log,
                   active_providers, language_mapping, supported_languages, gs_caller,
                   gs_req, lang_code, synth_calls, cmp_pc, cmp_api, cmp_todo, cmp_results>>

\* line 119; a provider without a table makes the subscript raise KeyError
GsLookup ==
    /\ UNCHANGED other_vars
    /\ gs_pc = "check"
    /\ InSeq(active_providers, gs_req.provider)
    /\ IF gs_req.provider \in DOMAIN language_mapping
       THEN /\ lang_code' = DictGet(language_mapping[gs_req.provider], gs_req.language,
                                    gs_req.language)
            /\ gs_pc' = "dispatch"
            /\ UNCHANGED gs_result
       ELSE /\ gs_result' = Raised(Error(<<"KeyError", gs_req.provider>>, <<>>))
            /\ gs_pc' = "raised"
            /\ UNCHANGED lang_code
    /\ UNCHANGED <<call_vars, init_raises, mkdir_raises, mgr_pc, init_next, init_log,
                   active_providers, language_mapping, supported_languages, gs_caller,
                   gs_req, synth_calls, cmp_pc, cmp_api, cmp_todo, cmp_results>>

\* lines 130-144 and 163-260: the error prefix of the cloud provider
CloudError(p) == IF p = "openai" THEN "OpenAI TTS error" ELSE "Google TTS error"

\* lines 121-124 with 141: the cloud call returns audio
GsCloudReturns ==
    /\ UNCHANGED other_vars
    /\ gs_pc = "dispatch"
    /\ gs_req.provider \in {"openai", "google"}
    /\ synth_calls' = Append(synth_calls, gs_req.provider)
    /\ gs_result' = Returned(CloudAudio)
    /\ gs_pc' = "returned"
    /\ UNCHANGED <<call_vars, init_raises, mkdir_raises, mgr_pc, init_next, init_log,
                   active_providers, language_mapping, supported_languages, gs_caller,
                   gs_req, lang_code, cmp_pc, cmp_api, cmp_todo, cmp_results>>

\* lines 121-124 with 143-144 and 259-260: the cloud call raises
GsCloudRaises ==
    /\ UNCHANGED other_vars
    /\ gs_pc = "dispatch"
    /\ gs_req.provider \in {"openai", "google"}
    /\ synth_calls' = Append(synth_calls, gs_req.provider)
    /\ gs_result' = Raised(Error(<<CloudError(gs_req.provider), "api error">>, <<>>))
    /\ gs_pc' = "raised"
    /\ UNCHANGED <<call_vars, init_raises, mkdir_raises, mgr_pc, init_next, init_log,
                   active_providers, language_mapping, supported_languages, gs_caller,
                   gs_req, lang_code, cmp_pc, cmp_api, cmp_todo, cmp_results>>

\* lines 125-126 and 264-279: _generate_pyttsx3_bytes is entered
GsPyttsx3Enters ==
    /\ UNCHANGED other_vars
    /\ gs_pc = "dispatch"
    /\ gs_req.provider = "pyttsx3"
    /\ synth_calls' = Append(synth_calls, "pyttsx3")
    /\ \E o \in ManagerEngineOutcomes : CallEnters(o, "start")
    /\ gs_pc' = "synth"
    /\ UNCHANGED <<init_raises, mkdir_raises, mgr_pc, init_next, init_log,
                   active_providers, language_mapping, supported_languages, gs_caller,
                   gs_req, lang_code, gs_result, cmp_pc, cmp_api, cmp_todo, cmp_results>>

\* line 126: _generate_pyttsx3_bytes has ended
GsPyttsx3Ends ==
    /\ UNCHANGED other_vars
    /\ gs_pc = "synth"
    /\ pc \in {"done", "failed"}
    /\ gs_result' = result
    /\ gs_pc' = IF result.kind = "ok" THEN "returned" ELSE "raised"
    /\ pc' = "idle"
    /\ UNCHANGED <<engine_out, temp_exists, temp_content, audio_data, tag, offset,
                   conv_audio_data, save_error, result>>
    /\ UNCHANGED <<init_raises, mkdir_raises, mgr_pc, init_next, init_log,
                   active_providers, language_mapping, supported_languages, gs_caller,
                   gs_req, lang_code, synth_calls, cmp_pc, cmp_api, cmp_todo, cmp_results>>

CompareApis == {"compare_providers", "api_tts"}

\* lines 454-456, main.py lines 295-296: results = {} and the list of keys is taken
CmpCall ==
    /\ UNCHANGED other_vars
    /\ Quiescent
    /\ \E a \in CompareApis, l \in RequestLanguages :
           /\ cmp_api' = a
           /\ gs_req' = [provider |-> "none", language |-> l]
    /\ cmp_todo' = GetAvailableProviders
    /\ cmp_results' = <<>>
    /\ cmp_pc' = "loop"
    /\ gs_pc' = "idle"
    /\ gs_caller' = "compare"
    /\ lang_code' = "none"
    /\ gs_result' = NoResult
    /\ synth_calls' = <<>>
    /\ CallEnters(NoOutcome, "idle")
    /\ UNCHANGED <<init_raises, mkdir_raises, mgr_pc, init_next, init_log,
                   active_providers, language_mapping, supported_languages>>

\* lines 456-458, main.py lines 296-302: generate_speech for the next provider
CmpNext ==
    /\ UNCHANGED other_vars
    /\ cmp_pc = "loop"
    /\ gs_pc = "idle"
    /\ cmp_todo # <<>>
    /\ gs_req' = [provider |-> Head(cmp_todo), language |-> gs_req.language]
    /\ gs_pc' = "check"
    /\ lang_code' = "none"
    /\ gs_result' = NoResult
    /\ CallEnters(NoOutcome, "idle")
    /\ UNCHANGED <<init_raises, mkdir_raises, mgr_pc, init_next, init_log,
                   active_providers, language_mapping, supported_languages, gs_caller,
                   synth_calls, cmp_pc, cmp_api, cmp_todo, cmp_results>>

\* mutant: a failing provider gets no entry
CompareEntryDropsErrors(results, p, r, api) ==
    IF r.kind = "ok"
    THEN DictSet(results, p, [kind |-> IF api = "api_tts" THEN "base64" ELSE "audio",
                              data |-> r.data, text |-> <<>>])
    ELSE results

\* lines 459-461, main.py lines 305-308: results[provider] = ...
CompareEntry(results, p, r, api) ==
    IF r.kind = "ok"
    THEN DictSet(results, p, [kind |-> IF api = "api_tts" THEN "base64" ELSE "audio",
                              data |-> r.data, text |-> <<>>])
    ELSE DictSet(results, p, [kind |-> "error", data |-> <<>>, text |-> <<"Error">> \o r.msg])

\* lines 458-461, main.py lines 298-308: the entry of the provider is stored
CmpCollect ==
    /\ UNCHANGED other_vars
    /\ cmp_pc = "loop"
    /\ gs_pc \in {"returned", "raised"}
    /\ cmp_results' = CompareEntry(cmp_results, gs_req.provider, gs_result, cmp_api)
    /\ cmp_todo' = Tail(cmp_todo)
    /\ gs_pc' = "idle"
    /\ UNCHANGED <<call_vars, init_raises, mkdir_raises, mgr_pc, init_next, init_log,
                   active_providers, language_mapping, supported_languages, gs_caller,
                   gs_req, lang_code, gs_result, synth_calls, cmp_pc, cmp_api>>

\* line 463, main.py line 310: the loop is over and results is returned
CmpReturn ==
    /\ UNCHANGED other_vars
    /\ cmp_pc = "loop"
    /\ gs_pc = "idle"
    /\ cmp_todo = <<>>
    /\ cmp_pc' = "done"
    /\ UNCHANGED <<call_vars, init_raises, mkdir_raises, mgr_pc, init_next, init_log,
                   active_providers, language_mapping, supported_languages, gs_pc,
                   gs_caller, gs_req, lang_code, gs_result, synth_calls, cmp_api, cmp_todo,
                   cmp_results>>

NextManager ==
    \/ MgrBegin
    \/ InitProviderOk
    \/ InitProviderFails
    \/ MgrFinish
    \/ GsCall
    \/ GsUnavailable
    \/ GsLookup
    \/ GsCloudReturns
    \/ GsCloudRaises
    \/ GsPyttsx3Enters
    \/ GsPyttsx3Ends
    \/ CmpCall
    \/ CmpNext
    \/ CmpCollect
    \/ CmpReturn
    \/ Next

SpecManager == InitManager /\ [][NextManager]_vars

----------------------------------------------------------------------------
(* _convert_aiff_to_wav (lines 344-379) called concurrently on one manager. *)
(* The calls are interleaved statement by statement, which is what threads *)
(* can do and more than the event loop does.                               *)

ConcBuffers ==
    {WrapAsMinimalAiff(<<1, 255>>),
     FormHeader \o Chunk(COMM, 1, <<7>>) \o Chunk(SSND, 10, SubHeader \o <<3, 4>>),
     FormHeader \o Chunk(COMM, 2, <<7, 8>>) \o Chunk(COMM, 0, <<>>),
     FormHeader \o Chunk(COMM, 300, <<7>>) \o Chunk(SSND, 9, SubHeader \o <<255>>),
     RIFF \o <<1, 2>>}

InitConcurrent ==
    /\ MgrServing
    /\ CallIdle
    /\ ServerIdle
    /\ AppIdle
    /\ cv_in \in [Calls -> ConcBuffers]
    /\ cv_pc = [c \in Calls |-> "called"]
    /\ cv_offset = [c \in Calls |-> 0]
    /\ cv_out = [c \in Calls |-> NoResult]

\* mutant: offset is an attribute of the manager, one for all calls
FrameShared(c) == 1

\* the frame that holds the locals of call c
Frame(c) == c

\* lines 351-355
ConvEnter(c) ==
    /\ cv_pc[c] = "called"
    /\ IF StartsWith(cv_in[c], FORM)
       THEN /\ cv_offset' = [cv_offset EXCEPT ![Frame(c)] = 12]
            /\ cv_pc' = [cv_pc EXCEPT ![c] = "walk"]
            /\ UNCHANGED cv_out
       ELSE /\ cv_out' = [cv_out EXCEPT ![c] = Raised(Error(<<"Not a valid AIFF file">>, <<>>))]
            /\ cv_pc' = [cv_pc EXCEPT ![c] = "done"]
            /\ UNCHANGED cv_offset
    /\ UNCHANGED <<call_vars, mgr_vars, srv_vars, app_vars, cv_in>>

\* lines 356-360 and 377
ConvAdvance(c) ==
    /\ cv_pc[c] = "walk"
    /\ WalkStep(cv_in[c], cv_offset[Frame(c)]) = "advance"
    /\ cv_offset' = [cv_offset EXCEPT ![Frame(c)] = NextOffset(cv_in[c], @)]
    /\ UNCHANGED <<call_vars, mgr_vars, srv_vars, app_vars, cv_in, cv_pc, cv_out>>

\* lines 360-375
ConvFound(c) ==
    /\ cv_pc[c] = "walk"
    /\ WalkStep(cv_in[c], cv_offset[Frame(c)]) = "found"
    /\ cv_out' = [cv_out EXCEPT
                     ![c] = Returned(EncodeWav(SoundSlice(cv_in[c], cv_offset[Frame(c)])))]
    /\ cv_pc' = [cv_pc EXCEPT ![c] = "done"]
    /\ UNCHANGED <<call_vars, mgr_vars, srv_vars, app_vars, cv_in, cv_offset>>

\* lines 356 and 379
ConvExhausted(c) ==
    /\ cv_pc[c] = "walk"
    /\ WalkStep(cv_in[c], cv_offset[Frame(c)]) = "exhausted"
    /\ cv_out' = [cv_out EXCEPT
                     ![c] = Raised(Error(<<"No sound data found in AIFF file">>, <<>>))]
    /\ cv_pc' = [cv_pc EXCEPT ![c] = "done"]
    /\ UNCHANGED <<call_vars, mgr_vars, srv_vars, app_vars, cv_in, cv_offset>>

NextConcurrent ==
    \/ \E c \in Calls : ConvEnter(c)
    \/ \E c \in Calls : ConvAdvance(c)
    \/ \E c \in Calls : ConvFound(c)
    \/ \E c \in Calls : ConvExhausted(c)

SpecConcurrent == InitConcurrent /\ [][NextConcurrent]_vars

----------------------------------------------------------------------------
(* main.py: initialize_services (lines 43-47), websocket_endpoint (lines   *)
(* 68-122) and the HTTP handlers that call initialize_services.  Every     *)
(* handler is a coroutine of one event loop: an action is the code between *)
(* two awaits.                                                             *)

MaxMessages == 2

\* "object": JSON text of an object that lines 89-98 accept; "malformed":
\* text for which json.loads, .get or VoiceAgent(...) raises
MessageKinds == {"object", "malformed"}

InitServer ==
    /\ InitManager
    /\ init_raises = {}
    /\ mkdir_raises = FALSE

\* mutant: no test for None, every call constructs
InitializeServicesAlways(mgr, n) == [mgr |-> n + 1, instances |-> n + 1]

\* lines 43-47 when the constructor returns: the global and the count after
InitializeServices(mgr, n) ==
    IF mgr = 0 THEN [mgr |-> n + 1, instances |-> n + 1]
    ELSE [mgr |-> mgr, instances |-> n]

\* list.remove(x): the first element equal to x leaves the list
ListRemove(s, x) ==
    LET i == CHOOSE k \in 1..Len(s) : s[k] = x /\ \A j \in 1..(k - 1) : s[j] # x
    IN  [k \in 1..(Len(s) - 1) |-> IF k < i THEN s[k] ELSE s[k + 1]]

\* lines 117-122: both except clauses
HandlerEnds(c) ==
    /\ active_connections' = IF InSeq(active_connections, c)
                             THEN ListRemove(active_connections, c)
                             ELSE active_connections
    /\ ws_pc' = [ws_pc EXCEPT ![c] = "ended"]

\* lines 71-84: accept returns, the connection is stored, the manager fetched
WsAccept(c) ==
    /\ ws_pc[c] = "new"
    /\ active_connections' = Append(active_connections, c)
    /\ tts_manager' = InitializeServices(tts_manager, instances).mgr
    /\ instances' = InitializeServices(tts_manager, instances).instances
    /\ ws_mgr' = [ws_mgr EXCEPT ![c] = InitializeServices(tts_manager, instances).mgr]
    /\ ws_pc' = [ws_pc EXCEPT ![c] = "welcome"]
    /\ UNCHANGED <<call_vars, mgr_vars, conc_vars, app_vars, http_got, http_last,
                   ws_received, ws_sent>>

\* lines 71-75 and 46: TTSProviderManager() raises (tts_providers.py line 56),
\* outside the try statement that starts at line 77
WsAcceptCtorRaises(c) ==
    /\ ws_pc[c] = "new"
    /\ tts_manager = 0
    /\ active_connections' = Append(active_connections, c)
    /\ ws_pc' = [ws_pc EXCEPT ![c] = "ended"]
    /\ UNCHANGED <<call_vars, mgr_vars, conc_vars, app_vars, tts_manager, instances, http_got,
                   http_last, ws_mgr, ws_received, ws_sent>>

\* line 84: the welcome message is sent
WsWelcome(c) ==
    /\ ws_pc[c] = "welcome"
    /\ ws_sent' = [ws_sent EXCEPT ![c] = Append(@, <<"system_message", 0>>)]
    /\ ws_pc' = [ws_pc EXCEPT ![c] = "recv"]
    /\ UNCHANGED <<call_vars, mgr_vars, conc_vars, app_vars, tts_manager, instances, http_got,
                   http_last, active_connections, ws_mgr, ws_received>>

\* lines 84 and 115: send_text raises
WsSendFails(c) ==
    /\ ws_pc[c] \in {"welcome", "send"}
    /\ HandlerEnds(c)
    /\ UNCHANGED <<call_vars, mgr_vars, conc_vars, app_vars, tts_manager, instances, http_got,
                   http_last, ws_mgr, ws_received, ws_sent>>

\* lines 88-98: a message arrives; it is decoded and the agent is built
WsReceive(c) ==
    /\ ws_pc[c] = "recv"
    /\ Len(ws_received[c]) < MaxMessages
    /\ \E k \in MessageKinds :
           /\ ws_received' = [ws_received EXCEPT ![c] = Append(@, k)]
           /\ IF k = "object"
              THEN /\ ws_pc' = [ws_pc EXCEPT ![c] = "process"]
                   /\ UNCHANGED active_connections
              ELSE HandlerEnds(c)
    /\ UNCHANGED <<call_vars, mgr_vars, conc_vars, app_vars, tts_manager, instances, http_got,
                   http_last, ws_mgr, ws_sent>>

\* lines 88 and 117-118: receive_text raises WebSocketDisconnect
WsDisconnect(c) ==
    /\ ws_pc[c] = "recv"
    /\ HandlerEnds(c)
    /\ UNCHANGED <<call_vars, mgr_vars, conc_vars, app_vars, tts_manager, instances, http_got,
                   http_last, ws_mgr, ws_received, ws_sent>>

\* lines 101-112: process_message returns its dict (a response or an error)
WsProcess(c) ==
    /\ ws_pc[c] = "process"
    /\ ws_pc' = [ws_pc EXCEPT ![c] = "send"]
    /\ UNCHANGED <<call_vars, mgr_vars, conc_vars, app_vars, tts_manager, instances, http_got,
                   http_last, active_connections, ws_mgr, ws_received, ws_sent>>

\* mutant: the response is sent twice
RespondTwice(log, k) == Append(Append(log, <<"response", k>>), <<"response", k>>)

\* line 115: the response to the k-th message goes out
Respond(log, k) == Append(log, <<"response", k>>)

\* line 115, then back to line 88
WsRespond(c) ==
    /\ ws_pc[c] = "send"
    /\ ws_sent' = [ws_sent EXCEPT ![c] = Respond(@, Len(ws_received[c]))]
    /\ ws_pc' = [ws_pc EXCEPT ![c] = "recv"]
    /\ UNCHANGED <<call_vars, mgr_vars, conc_vars, app_vars, tts_manager, instances, http_got,
                   http_last, active_connections, ws_mgr, ws_received>>

\* lines 276, 319, 332 and 351: an HTTP handler fetches the manager
HttpHandler ==
    /\ tts_manager' = InitializeServices(tts_manager, instances).mgr
    /\ instances' = InitializeServices(tts_manager, instances).instances
    /\ http_got' = http_got \cup {InitializeServices(tts_manager, instances).mgr}
    /\ http_last' = "ok"
    /\ UNCHANGED <<call_vars, mgr_vars, conc_vars, app_vars, active_connections, ws_pc, ws_mgr,
                   ws_received, ws_sent>>

\* the same with TTSProviderManager() raising: the global stays None
HttpCtorRaises ==
    /\ tts_manager = 0
    /\ http_last' = "error"
    /\ UNCHANGED <<call_vars, mgr_vars, conc_vars, app_vars, tts_manager, instances, http_got,
                   active_connections, ws_pc, ws_mgr, ws_received, ws_sent>>

NextServer ==
    \/ \E c \in Conns : WsAccept(c)
    \/ \E c \in Conns : WsAcceptCtorRaises(c)
    \/ \E c \in Conns : WsWelcome(c)
    \/ \E c \in Conns : WsSendFails(c)
    \/ \E c \in Conns : WsReceive(c)
    \/ \E c \in Conns : WsDisconnect(c)
    \/ \E c \in Conns : WsProcess(c)
    \/ \E c \in Conns : WsRespond(c)
    \/ HttpHandler
    \/ HttpCtorRaises

SpecServer == InitServer /\ [][NextServer]_vars

----------------------------------------------------------------------------
(* voice_agents.py: VoiceAgent.process_message (lines 97-154) and          *)
(* _generate_llm_response (lines 156-190).  A text is <<"text", kind, n>>:  *)
(* the n-th message, a str or (kind "other") a JSON value that is no str,   *)
(* which main.py line 102 passes on unchecked.  A reply is <<"llm",         *)
(* "reply", n>> or <<"fallback", language, n>>.                             *)

MaxTurns == 6
RecentWindow == 10

AgentLanguages == {"en", "be"}

InitAgent ==
    /\ MgrServing
    /\ CallIdle
    /\ ConcIdle
    /\ ServerIdle
    /\ AgentNew
    /\ IntentIdle
    /\ openai_available \in BOOLEAN
    /\ ag_language \in AgentLanguages

\* lines 53-57 and 161: the system message for the agent's language
SystemMessage(language) == <<"system", <<"prompt", language, 0>>>>

\* mutant: the first entries of the history instead of the last
RecentHistoryOldest(h) == SubSeq(h, 1, Min(RecentWindow, Len(h)))

\* line 165: self.conversation_history[-10:]
RecentHistory(h) ==
    IF Len(h) <= RecentWindow THEN h ELSE SubSeq(h, Len(h) - RecentWindow + 1, Len(h))

\* lines 160-173: the list messages
LlmMessages(h, text, language) ==
    <<SystemMessage(language)>>
        \o [i \in 1..Len(RecentHistory(h)) |->
               <<IF RecentHistory(h)[i].role = "user" THEN "user" ELSE "assistant",
                 RecentHistory(h)[i].content>>]
        \o <<<<"user", text>>>>

\* mutant: the reply is always the English one
GenerateFallbackResponseEnglish(text, language) ==
    IF text[2] = "str"
    THEN [kind |-> "ok", value |-> <<"fallback", "en", text[3]>>]
    ELSE [kind |-> "error", value |-> <<"error", "AttributeError", 0>>]

\* lines 192-253: user_message.lower() raises AttributeError unless it is a str
GenerateFallbackResponse(text, language) ==
    IF text[2] = "str"
    THEN [kind |-> "ok", value |-> <<"fallback", language, text[3]>>]
    ELSE [kind |-> "error", value |-> <<"error", "AttributeError", 0>>]

\* lines 148-154: the except clause of process_message
ErrorDict(e) == [type |-> "error", text |-> e]

\* line 28: VoiceAgent(...) as main.py lines 98 and 361 build it for each request
NewAgent ==
    /\ pm_pc \in {"idle", "returned"}
    /\ conversation_history' = <<>>
    /\ pm_pc' = "idle"
    /\ pm_text' = <<"text", "str", 0>>
    /\ hist_before' = 0
    /\ llm_messages' = <<>>
    /\ llm_attempts' = 0
    /\ llm_result' = [kind |-> "none", value |-> <<"none", "none", 0>>]
    /\ pm_result' = [type |-> "none", text |-> <<"none", "none", 0>>]
    /\ UNCHANGED <<call_vars, mgr_vars, conc_vars, srv_vars, intent_vars, openai_available,
                   ag_language, pm_turn>>

\* lines 99-105: the user entry is appended
PmCall ==
    /\ pm_pc \in {"idle", "returned"}
    /\ pm_turn < MaxTurns
    /\ pm_turn' = pm_turn + 1
    /\ \E k \in {"str", "other"} :
           /\ pm_text' = <<"text", k, pm_turn + 1>>
           /\ conversation_history' =
                  Append(conversation_history,
                         [role |-> "user", content |-> <<"text", k, pm_turn + 1>>])
    /\ hist_before' = Len(conversation_history)
    /\ llm_messages' = <<>>
    /\ llm_attempts' = 0
    /\ llm_result' = [kind |-> "none", value |-> <<"none", "none", 0>>]
    /\ pm_result' = [type |-> "none", text |-> <<"none", "none", 0>>]
    /\ pm_pc' = "respond"
    /\ UNCHANGED <<call_vars, mgr_vars, conc_vars, srv_vars, intent_vars, openai_available,
                   ag_language>>

\* lines 110-111: no key: the fallback reply, or its AttributeError caught at 148
PmFallback ==
    /\ pm_pc = "respond"
    /\ ~openai_available
    /\ IF GenerateFallbackResponse(pm_text, ag_language).kind = "ok"
       THEN /\ pm_result' = [type |-> "none",
                             text |-> GenerateFallbackResponse(pm_text, ag_language).value]
            /\ pm_pc' = "speech"
       ELSE /\ pm_result' = ErrorDict(GenerateFallbackResponse(pm_text, ag_language).value)
            /\ pm_pc' = "returned"
    /\ UNCHANGED <<call_vars, mgr_vars, conc_vars, srv_vars, intent_vars, openai_available,
                   ag_language, conversation_history, pm_turn, pm_text, hist_before,
                   llm_messages, llm_attempts, llm_result>>

\* lines 108-109 and 160-184: messages is built and the completion requested
PmLlmCall ==
    /\ pm_pc = "respond"
    /\ openai_available
    /\ llm_messages' = LlmMessages(conversation_history, pm_text, ag_language)
    /\ llm_attempts' = llm_attempts + 1
    /\ pm_pc' = "llm"
    /\ UNCHANGED <<call_vars, mgr_vars, conc_vars, srv_vars, intent_vars, openai_available,
                   ag_language, conversation_history, pm_turn, pm_text, hist_before,
                   llm_result, pm_result>>

\* line 186: the completion is returned
PmLlmReturns ==
    /\ pm_pc = "llm"
    /\ llm_result' = [kind |-> "ok", value |-> <<"llm", "reply", pm_text[3]>>]
    /\ pm_result' = [type |-> "none", text |-> <<"llm", "reply", pm_text[3]>>]
    /\ pm_pc' = "speech"
    /\ UNCHANGED <<call_vars, mgr_vars, conc_vars, srv_vars, intent_vars, openai_available,
                   ag_language, conversation_history, pm_turn, pm_text, hist_before,
                   llm_messages, llm_attempts>>

\* lines 188-190: the completion failed; the fallback reply is returned, or
\* its AttributeError leaves _generate_llm_response and is caught at 148
PmLlmFails ==
    /\ pm_pc = "llm"
    /\ llm_result' = GenerateFallbackResponse(pm_text, ag_language)
    /\ IF GenerateFallbackResponse(pm_text, ag_language).kind = "ok"
       THEN /\ pm_result' = [type |-> "none",
                             text |-> GenerateFallbackResponse(pm_text, ag_language).value]
            /\ pm_pc' = "speech"
       ELSE /\ pm_result' = ErrorDict(GenerateFallbackResponse(pm_text, ag_language).value)
            /\ pm_pc' = "returned"
    /\ UNCHANGED <<call_vars, mgr_vars, conc_vars, srv_vars, intent_vars, openai_available,
                   ag_language, conversation_history, pm_turn, pm_text, hist_before,
                   llm_messages, llm_attempts>>

\* lines 114-123: generate_speech returned the audio
PmSpeechReturns ==
    /\ pm_pc = "speech"
    /\ pm_pc' = "write"
    /\ UNCHANGED <<call_vars, mgr_vars, conc_vars, srv_vars, intent_vars, openai_available,
                   ag_language, conversation_history, pm_turn, pm_text, hist_before,
                   llm_messages, llm_attempts, llm_result, pm_result>>

\* lines 114-126 and 148-154: generate_speech or the file write raised
PmFails ==
    /\ pm_pc \in {"speech", "write"}
    /\ pm_result' = ErrorDict(IF pm_pc = "speech" THEN <<"error", "generate_speech", 0>>
                              ELSE <<"error", "OSError", 0>>)
    /\ pm_pc' = "returned"
    /\ UNCHANGED <<call_vars, mgr_vars, conc_vars, srv_vars, intent_vars, openai_available,
                   ag_language, conversation_history, pm_turn, pm_text, hist_before,
                   llm_messages, llm_attempts, llm_result>>

\* mutant: the agent entry is not recorded
RecordReplyForgets(h, reply) == h

\* lines 128-135: the agent entry is appended
RecordReply(h, reply) == Append(h, [role |-> "agent", content |-> reply])

\* lines 125-146: the file is written, the reply recorded and the dict returned
PmReturns ==
    /\ pm_pc = "write"
    /\ conversation_history' = RecordReply(conversation_history, pm_result.text)
    /\ pm_result' = [type |-> "agent_response", text |-> pm_result.text]
    /\ pm_pc' = "returned"
    /\ UNCHANGED <<call_vars, mgr_vars, conc_vars, srv_vars, intent_vars, openai_available,
                   ag_language, pm_turn, pm_text, hist_before, llm_messages, llm_attempts,
                   llm_result>>

NextAgent ==
    \/ NewAgent
    \/ PmCall
    \/ PmFallback
    \/ PmLlmCall
    \/ PmLlmReturns
    \/ PmLlmFails
    \/ PmSpeechReturns
    \/ PmFails
    \/ PmReturns

SpecAgent == InitAgent /\ [][NextAgent]_vars

----------------------------------------------------------------------------
(* voice_agent.py, RenovaVisionAgent._analyze_intent (lines 143-176), and
   voice_agents.py, VoiceAgent._generate_fallback_response (lines 192-253):
   the keyword rules.  A text is a sequence of characters. *)

\* str.lower() on the letters the texts are written with
AsciiUpper ==
    <<"A", "B", "C", "D", "E", "F", "G", "H", "I", "J", "K", "L", "M",
      "N", "O", "P", "Q", "R", "S", "T", "U", "V", "W", "X", "Y", "Z">>
AsciiLower ==
    <<"a", "b", "c", "d", "e", "f", "g", "h", "i", "j", "k", "l", "m",
      "n", "o", "p", "q", "r", "s", "t", "u", "v", "w", "x", "y", "z">>

\* whole-word matching instead of Python's substring test
ContainsAsWord(t, w) ==
    \E i \in 1..Len(t), j \in 0..Len(t) :
        /\ i <= j + 1
        /\ SubSeq(t, i, j) = w
        /\ (i = 1 \/ t[i - 1] = " ")
        /\ (j = Len(t) \/ t[j + 1] = " ")

\* lines 145 and 197: text.lower()
Lower(t) ==
    [k \in 1..Len(t) |->
        IF \E u \in DOMAIN AsciiUpper : AsciiUpper[u] = t[k]
        THEN AsciiLower[CHOOSE u \in DOMAIN AsciiUpper : AsciiUpper[u] = t[k]]
        ELSE t[k]]

\* Python's "w in t" on two strings: w occurs in t as a substring
RECURSIVE Contains(_, _)
Contains(t, w) ==
    IF Len(w) > Len(t) THEN FALSE
    ELSE IF SubSeq(t, 1, Len(w)) = w THEN TRUE
    ELSE Contains(Tail(t), w)

\* voice_agent.py lines 148-172: the if statements in the order of the code
IntentRules ==
    <<
      \* line 148
      [category |-> "greeting",
       keywords |-> {
          <<"h", "e", "l", "l", "o">>,
          <<"h", "i">>,
          <<"h", "e", "y">>,
          <<"s", "t", "a", "r", "t">>,
          <<"b", "e", "g", "i", "n">>}],
      \* line 152
      [category |-> "provider_comparison",
       keywords |-> {
          <<"c", "o", "m", "p", "a", "r", "e">>,
          <<"d", "i", "f", "f", "e", "r", "e", "n", "c", "e">>,
          <<"v", "s">>,
          <<"v", "e", "r", "s", "u", "s">>,
          <<"w", "h", "i", "c", "h">>,
          <<"b", "e", "t", "t", "e", "r">>}],
      \* line 156
      [category |-> "multilingual",
       keywords |-> {
          <<"l", "a", "n", "g", "u", "a", "g", "e">>,
          <<"m", "u", "l", "t", "i", "l", "i", "n", "g", "u", "a", "l">>,
          <<"b", "e", "l", "a", "r", "u", "s", "i", "a", "n">>,
          <<"p", "o", "l", "i", "s", "h">>,
          <<"l", "i", "t", "h", "u", "a", "n", "i", "a", "n">>,
          <<"l", "a", "t", "v", "i", "a", "n">>,
          <<"e", "s", "t", "o", "n", "i", "a", "n">>}],
      \* line 160
      [category |-> "pricing",
       keywords |-> {
          <<"p", "r", "i", "c", "e">>,
          <<"c", "o", "s", "t">>,
          <<"p", "r", "i", "c", "i", "n", "g">>,
          <<"b", "u", "d", "g", "e", "t">>,
          <<"e", "x", "p", "e", "n", "s", "i", "v", "e">>,
          <<"c", "h", "e", "a", "p">>,
          <<"f", "r", "e", "e">>}],
      \* line 164
      [category |-> "technical_details",
       keywords |-> {
          <<"t", "e", "c", "h", "n", "i", "c", "a", "l">>,
          <<"a", "p", "i">>,
          <<"i", "n", "t", "e", "g", "r", "a", "t", "i", "o", "n">>,
          <<"i", "m", "p", "l", "e", "m", "e", "n", "t", "a", "t", "i", "o", "n">>,
          <<"c", "o", "d", "e">>,
          <<"s", "e", "t", "u", "p">>}],
      \* line 168
      [category |-> "demo_request",
       keywords |-> {
          <<"d", "e", "m", "o">>,
          <<"s", "a", "m", "p", "l", "e">>,
          <<"h", "e", "a", "r">>,
          <<"s", "h", "o", "w">>,
          <<"d", "e", "m", "o", "n", "s", "t", "r", "a", "t", "e">>,
          <<"e", "x", "a", "m", "p", "l", "e">>}],
      \* line 172
      [category |-> "closing",
       keywords |-> {
          <<"b", "y", "e">>,
          <<"g", "o", "o", "d", "b", "y", "e">>,
          <<"t", "h", "a", "n", "k", "s">>,
          <<"t", "h", "a", "n", "k", " ", "y", "o", "u">>,
          <<"e", "n", "d">>,
          <<"f", "i", "n", "i", "s", "h">>}]
    >>

\* voice_agents.py lines 199-227: the if/elif chain in the order of the code
FallbackRules ==
    <<
      \* line 199
      [category |-> "greeting",
       keywords |-> {
          <<"h", "e", "l", "l", "o">>,
          <<"h", "i">>,
          <<"h", "e", "y">>,
          <<"s", "t", "a", "r", "t">>,
          <<"b", "e", "g", "i", "n">>}],
      \* line 213
      [category |-> "pricing",
       keywords |-> {
          <<"p", "r", "i", "c", "e">>,
          <<"c", "o", "s", "t">>,
          <<"p", "r", "i", "c", "i", "n", "g">>,
          <<"b", "u", "d", "g", "e", "t">>}],
      \* line 227
      [category |-> "multilingual",
       keywords |-> {
          <<"l", "a", "n", "g", "u", "a", "g", "e">>,
          <<"m", "u", "l", "t", "i", "l", "i", "n", "g", "u", "a", "l">>,
          <<"b", "e", "l", "a", "r", "u", "s", "i", "a", "n">>,
          <<"p", "o", "l", "i", "s", "h">>,
          <<"l", "i", "t", "h", "u", "a", "n", "i", "a", "n">>,
          <<"l", "a", "t", "v", "i", "a", "n">>,
          <<"e", "s", "t", "o", "n", "i", "a", "n">>}]
    >>

\* the first rule one of whose keywords the text contains, or the default:
\* any(word in text_lower for word in [...]) under if ... return / elif
RECURSIVE FirstMatch(_, _, _)
FirstMatch(rules, t, default) ==
    IF rules = <<>> THEN default
    ELSE IF \E w \in Head(rules).keywords : Contains(t, w) THEN Head(rules).category
    ELSE FirstMatch(Tail(rules), t, default)

\* voice_agent.py lines 143-176
AnalyzeIntent(text) == FirstMatch(IntentRules, Lower(text), "general_inquiry")

\* voice_agents.py lines 197-241: the branch whose reply is returned
FallbackCategory(user_message) == FirstMatch(FallbackRules, Lower(user_message), "default")

\* the words the texts are made of: keywords of several rules, in both cases,
\* words that hold a keyword of another rule inside them, and words without one
Words ==
    {
      <<"H", "e", "l", "l", "o">>,
      <<"w", "h", "i", "c", "h">>,
      <<"o", "k">>,
      <<"P", "R", "I", "C", "E">>,
      <<"b", "u", "d", "g", "e", "t">>,
      <<"l", "a", "n", "g", "u", "a", "g", "e">>,
      <<"a", "p", "i">>,
      <<"d", "e", "m", "o">>,
      <<"t", "h", "a", "n", "k">>,
      <<"y", "o", "u">>,
      <<"s", "e", "n", "d">>,
      <<"v", "e", "r", "s", "u", "s">>,
      <<"C", "h", "e", "a", "p">>
    }

\* the empty text, one word, or two words with a space between them
Texts == {<<>>} \cup Words \cup {a \o <<" ">> \o b : a \in Words, b \in Words}

InitIntent ==
    /\ MgrServing
    /\ CallIdle
    /\ ConcIdle
    /\ ServerIdle
    /\ AgentNew
    /\ openai_available = FALSE
    /\ ag_language = "en"
    /\ in_text \in Texts
    /\ intent = "none"
    /\ fb_category = "none"

\* voice_agent.py line 102: intent = self._analyze_intent(text.lower())
AnalyzeIntentCall ==
    /\ intent = "none"
    /\ intent' = AnalyzeIntent(Lower(in_text))
    /\ UNCHANGED <<call_vars, mgr_vars, conc_vars, srv_vars, agent_vars, in_text, fb_category>>

\* voice_agents.py lines 111 and 190: self._generate_fallback_response(text, language)
FallbackCall ==
    /\ fb_category = "none"
    /\ fb_category' = FallbackCategory(in_text)
    /\ UNCHANGED <<call_vars, mgr_vars, conc_vars, srv_vars, agent_vars, in_text, intent>>

NextIntent ==
    \/ AnalyzeIntentCall
    \/ FallbackCall

SpecIntent == InitIntent /\ [][NextIntent]_vars

----------------------------------------------------------------------------
(* Vocabulary of the properties *)

Terminal == pc \in {"done", "failed"}

\* the engine wrote a file holding the bytes b
Wrote(b) == engine_out.mode = "write" /\ engine_out.bytes = b
Written == engine_out.bytes

\* struct.unpack('<H') and struct.unpack('<L') of a WAV reader
UnpackLE16(b) == b[1] + b[2] * 256
UnpackLE32(b) == b[1] + b[2] * 256 + b[3] * 65536 + b[4] * 16777216

\* the cursor positions of the chunk walk as the specification describes it:
\* start at c, stop at an SSND chunk, otherwise advance by 8 + size while a
\* full header fits before the last eight bytes
RECURSIVE WalkPositions(_, _)
WalkPositions(b, c) ==
    IF c < Len(b) - 8
    THEN IF Slice(b, c, c + 4) = SSND THEN {c}
         ELSE {c} \cup WalkPositions(b, c + 8 + UnpackBE32(Slice(b, c + 4, c + 8)))
    ELSE {}

\* a header read at c declares a size that runs past the end of the buffer
Overruns(b, c) == c + 8 + UnpackBE32(Slice(b, c + 4, c + 8)) > Len(b)

\* the stepwise call and the function NormalizeToWav agree on every file
NormalizeAgrees ==
    (Terminal /\ engine_out.mode = "write") =>
        LET n == NormalizeToWav(Written)
        IN  result = IF n.kind = "ok" THEN n ELSE Raised(Pyttsx3Error(n))

----------------------------------------------------------------------------
(* C1: every file whose first four bytes are "RIFF" is returned byte for   *)
(* byte, whatever follows the four bytes: nothing is validated or encoded  *)
(* again.                                                                  *)
C1_WavPassThrough ==
    (Terminal /\ engine_out.mode = "write" /\ Slice(Written, 0, 4) = RIFF) =>
        /\ pc = "done"
        /\ tag = "Wav"
        /\ result = Returned(Written)

\* a RIFF-tagged file that is no WAV at all comes back unchanged
C1_Witness ==
    /\ pc = "done"
    /\ Wrote(RIFF \o <<83, 0, 83>>)
    /\ result.data = RIFF \o <<83, 0, 83>>

(* C2, as claimed: every file whose first four bytes are neither "RIFF"    *)
(* nor "FORM", files shorter than four bytes included, fails with the      *)
(* unknown-format error quoting the first eight bytes, and returns no      *)
(* bytes.                                                                  *)
C2_UnknownFormatFails_Original ==
    (Terminal /\ engine_out.mode = "write" /\ Slice(Written, 0, 4) \notin {RIFF, FORM}) =>
        /\ pc = "failed"
        /\ result.kind = "error"
        /\ result.data = <<>>
        /\ result.msg = <<"pyttsx3 error", "Unknown audio format">>
        /\ result.detail = Slice(Written, 0, 8)

(* C2, amended: every non-empty file whose first four bytes are neither    *)
(* "RIFF" nor "FORM", files of one to three bytes included, fails with the *)
(* unknown-format error quoting the first eight bytes (the whole file when *)
(* it is shorter), and returns no bytes.  The empty file fails earlier, at *)
(* the size check, with "pyttsx3 failed to create audio file".             *)
C2_UnknownFormatFails ==
    (/\ Terminal
     /\ engine_out.mode = "write"
     /\ Len(Written) > 0
     /\ Slice(Written, 0, 4) \notin {RIFF, FORM}) =>
        /\ pc = "failed"
        /\ tag = "Unknown"
        /\ result.kind = "error"
        /\ result.data = <<>>
        /\ result.msg = <<"pyttsx3 error", "Unknown audio format">>
        /\ result.detail = Slice(Written, 0, 8)
        /\ (Len(Written) < 8 => result.detail = Written)

\* a three-byte file, a proper prefix of "RIFF", fails quoting all of itself
C2_Witness ==
    /\ pc = "failed"
    /\ Wrote(<<82, 73, 70>>)
    /\ result.msg = <<"pyttsx3 error", "Unknown audio format">>
    /\ result.detail = <<82, 73, 70>>

(* C3: an AIFF file in which a chunk header read by the walk declares a    *)
(* size running past the end of the file fails with TruncatedChunk: no     *)
(* shortened payload is returned and no other failure is reported.         *)
C3_TruncatedChunkFails ==
    (/\ Terminal
     /\ engine_out.mode = "write"
     /\ Slice(Written, 0, 4) = FORM
     /\ \E c \in WalkPositions(Written, 12) : Overruns(Written, c)) =>
        /\ pc = "failed"
        /\ result.kind = "error"
        /\ result.msg = <<"pyttsx3 error", "AIFF to WAV conversion failed", "TruncatedChunk">>

(* C4: round trip: for every sample sequence s, the empty one and odd    *)
(* lengths included, the minimal AIFF file holding s in one SSND chunk of  *)
(* declared size Len(s) + 8 yields exactly s as the extracted sound data.  *)
C4_RoundTrip ==
    \A s \in Samples :
        (Terminal /\ Wrote(WrapAsMinimalAiff(s))) =>
            /\ pc = "done"
            /\ conv_audio_data = s
            /\ result.kind = "ok"
            /\ Slice(result.data, 44, Len(result.data)) = s

\* three samples (an odd length) come back from their minimal AIFF file
C4_Witness ==
    /\ pc = "done"
    /\ Wrote(WrapAsMinimalAiff(<<1, 255, 255>>))
    /\ conv_audio_data = <<1, 255, 255>>

\* every well-formed file with the chunks in front of SSND and the samples
GoodAiffTable ==
    {<<FormHeader \o pre \o Chunk(SSND, Len(s) + 8, SubHeader \o s), pre, s>> :
        pre \in PreSeqs, s \in Samples}

(* C5: for every file made of the FORM header, any sequence of chunks      *)
(* other than SSND with exact declared sizes (even or odd), and one SSND   *)
(* chunk, the extracted sound data is the SSND payload after its 8-byte    *)
(* sub-header: the chunks in front do not change the result.               *)
C5_SkipsOtherChunks ==
    (Terminal /\ engine_out.mode = "write" /\ Slice(Written, 0, 4) = FORM) =>
        \A e \in GoodAiffTable :
            e[1] = Written =>
                /\ pc = "done"
                /\ conv_audio_data = e[3]
                /\ offset = 12 + Len(e[2])
                /\ result.kind = "ok"
                /\ Slice(result.data, 44, Len(result.data)) = e[3]

\* two chunks, the first with an odd size, are skipped before SSND
C5_Witness ==
    /\ pc = "done"
    /\ Wrote(FormHeader \o Chunk(COMM, 1, <<7>>) \o Chunk(COMM, 2, <<7, 7>>)
                 \o Chunk(SSND, 10, SubHeader \o <<255, 1>>))
    /\ conv_audio_data = <<255, 1>>
    /\ offset = 31

(* C6: the WAV produced by a conversion declares PCM, 1 channel, 22050 Hz, *)
(* 16 bits per sample, byte rate 44100 and block align 2, and its data     *)
(* chunk holds the extracted samples verbatim, whatever chunks the source  *)
(* AIFF file holds.                                                        *)
C6_FixedWavParameters ==
    (pc = "done" /\ tag = "Aiff") =>
        LET w == result.data
        IN  /\ Slice(w, 0, 4) = <<82, 73, 70, 70>>
            /\ Slice(w, 8, 16) = <<87, 65, 86, 69, 102, 109, 116, 32>>
            /\ UnpackLE32(Slice(w, 16, 20)) = 16
            /\ UnpackLE16(Slice(w, 20, 22)) = 1
            /\ UnpackLE16(Slice(w, 22, 24)) = 1
            /\ UnpackLE32(Slice(w, 24, 28)) = 22050
            /\ UnpackLE32(Slice(w, 28, 32)) = 44100
            /\ UnpackLE16(Slice(w, 32, 34)) = 2
            /\ UnpackLE16(Slice(w, 34, 36)) = 16
            /\ Slice(w, 36, 40) = <<100, 97, 116, 97>>
            /\ Slice(w, 44, Len(w)) = conv_audio_data

\* a file with a COMM chunk in front of SSND gives the fixed parameters
C6_Witness ==
    /\ pc = "done"
    /\ tag = "Aiff"
    /\ Slice(audio_data, 12, 16) = COMM
    /\ conv_audio_data = <<255, 1, 1, 255>>
    /\ UnpackLE32(Slice(result.data, 24, 28)) = 22050
    /\ Slice(result.data, 44, 48) = <<255, 1, 1, 255>>

(* C7: for n extracted sample bytes, even or odd, 0 included, the WAV is   *)
(* 44 + n bytes long, its data size field is n and its RIFF length field   *)
(* is 36 + n; four sample bytes give 48 bytes with data size 4.            *)
C7_WavLengths ==
    (pc = "done" /\ tag = "Aiff") =>
        LET w == result.data
            n == Len(conv_audio_data)
        IN  /\ Len(w) = 44 + n
            /\ UnpackLE32(Slice(w, 40, 44)) = n
            /\ UnpackLE32(Slice(w, 4, 8)) = 36 + n
            /\ (n = 4 => Len(w) = 48 /\ Slice(w, 40, 44) = <<4, 0, 0, 0>>)

\* the 12 + 8 + 8 + 4 byte file of the scenario gives a 48-byte WAV
C7_Witness ==
    /\ pc = "done"
    /\ Wrote(WrapAsMinimalAiff(<<1, 255, 1, 255>>))
    /\ Len(audio_data) = 32
    /\ Len(result.data) = 48
    /\ UnpackLE32(Slice(result.data, 40, 44)) = 4

(* C8: every file that starts with "FORM" and has no SSND identifier at    *)
(* any position the chunk walk visits (files of 20 bytes or fewer, where   *)
(* nothing is visited, included) fails with the missing-sound-chunk error  *)
(* and returns no bytes.                                                   *)
C8_MissingSoundChunk ==
    (/\ Terminal
     /\ engine_out.mode = "write"
     /\ Slice(Written, 0, 4) = FORM
     /\ \A c \in WalkPositions(Written, 12) : Slice(Written, c, c + 4) # SSND) =>
        /\ pc = "failed"
        /\ result.kind = "error"
        /\ result.data = <<>>
        /\ result.msg = <<"pyttsx3 error", "AIFF to WAV conversion failed",
                          "No sound data found in AIFF file">>

\* a 20-byte file whose last eight bytes are an SSND header: nothing is visited
C8_Witness ==
    /\ pc = "failed"
    /\ Wrote(FormHeader \o Chunk(SSND, 0, <<>>))
    /\ offset = 12
    /\ result.msg = <<"pyttsx3 error", "AIFF to WAV conversion failed",
                      "No sound data found in AIFF file">>

(* C9: the sniffer is total and looks at the first four bytes only: Wav    *)
(* iff they are "RIFF", Aiff iff they are "FORM", Unknown otherwise, and   *)
(* Unknown for every buffer shorter than four bytes; the branch the call   *)
(* takes is the tag of the bytes it read.                                  *)
C9_SnifferByFirstFourBytes ==
    /\ engine_out.mode = "write" =>
           LET b == Written
               c == Classify(b)
           IN  /\ c \in {"Wav", "Aiff", "Unknown"}
               /\ (c = "Wav") = (Slice(b, 0, 4) = <<82, 73, 70, 70>>)
               /\ (c = "Aiff") = (Slice(b, 0, 4) = <<70, 79, 82, 77>>)
               /\ (c = "Unknown") = (Slice(b, 0, 4) \notin {<<82, 73, 70, 70>>, <<70, 79, 82, 77>>})
               /\ (Len(b) < 4 => c = "Unknown")
    /\ pc \in {"walk", "cleanup", "done", "failed"} /\ audio_data # <<>> =>
           /\ tag \in {"Wav", "Aiff", "Unknown"}
           /\ (tag = "Wav") = (Slice(audio_data, 0, 4) = <<82, 73, 70, 70>>)
           /\ (tag = "Aiff") = (Slice(audio_data, 0, 4) = <<70, 79, 82, 77>>)
           /\ (Len(audio_data) < 4 => tag = "Unknown")

\* a lower-case "form" head with a tail took the Unknown branch
C9_Witness ==
    /\ pc = "failed"
    /\ tag = "Unknown"
    /\ Slice(audio_data, 0, 4) = <<102, 111, 114, 109>>
    /\ Len(audio_data) > 4

(* C10: every successful result starts with "RIFF" and is tagged Wav, so   *)
(* normalizing a successful result again returns it unchanged.             *)
C10_Idempotent ==
    pc = "done" =>
        /\ result.kind = "ok"
        /\ Slice(result.data, 0, 4) = <<82, 73, 70, 70>>
        /\ Classify(result.data) = "Wav"
        /\ NormalizeToWav(result.data) = result

\* a converted AIFF file: its WAV differs from the input and is a fixed point
C10_Witness ==
    /\ pc = "done"
    /\ tag = "Aiff"
    /\ result.data # audio_data
    /\ conv_audio_data # <<>>
    /\ NormalizeToWav(result.data) = result

(* C11: whenever a conversion succeeds, the SSND chunk used lies wholly   *)
(* inside the file (chunk offset + 8 + declared size <= file length) and   *)
(* the extracted payload has exactly declared size - 8 bytes, also for     *)
(* SSND chunks declaring fewer than 8 bytes or more than remain.           *)
C11_ChunkInsideBuffer ==
    (pc = "done" /\ tag = "Aiff") =>
        LET size == UnpackBE32(Slice(audio_data, offset + 4, offset + 8))
        IN  /\ offset + 8 + size <= Len(audio_data)
            /\ Len(conv_audio_data) = size - 8

\* every file with two SSND chunks: the chunks in front, the first and the
\* second samples
TwoSsndTable ==
    {<<FormHeader \o pre \o Chunk(SSND, Len(s) + 8, SubHeader \o s)
                  \o Chunk(SSND, Len(s2) + 8, SubHeader \o s2), pre, s, s2>> :
        pre \in {<<>>} \cup PreChunks, s \in Samples, s2 \in SecondSamples}

\* the offsets of all chunk headers laid out from c on, SSND chunks included
RECURSIVE ChunkOffsets(_, _)
ChunkOffsets(b, c) ==
    IF c < Len(b) - 8
    THEN {c} \cup ChunkOffsets(b, c + 8 + UnpackBE32(Slice(b, c + 4, c + 8)))
    ELSE {}

SsndOffsets(b) == {c \in ChunkOffsets(b, 12) : Slice(b, c, c + 4) = SSND}

SetMin(S) == CHOOSE x \in S : \A y \in S : x <= y

(* C12: when the chunk sequence of an AIFF file holds more than one SSND   *)
(* chunk, the payload extracted is that of the SSND chunk at the lowest    *)
(* offset, up to the end its header declares; a later SSND chunk and the   *)
(* bytes after the first one do not change the result.                     *)
C12_FirstSsndWins ==
    (/\ Terminal
     /\ engine_out.mode = "write"
     /\ Slice(Written, 0, 4) = FORM
     /\ Cardinality(SsndOffsets(Written)) > 1) =>
        LET first == SetMin(SsndOffsets(Written))
            size  == UnpackBE32(Slice(Written, first + 4, first + 8))
        IN  /\ pc = "done"
            /\ offset = first
            /\ conv_audio_data = Slice(Written, first + 16, first + 8 + size)
            /\ Slice(result.data, 44, Len(result.data)) = conv_audio_data
            /\ \A e \in TwoSsndTable :
                   e[1] = Written =>
                       /\ conv_audio_data = e[3]
                       /\ result = Returned(EncodeWav(e[3]))

\* two SSND chunks behind a COMM chunk: the first one's samples come back
C12_Witness ==
    /\ pc = "done"
    /\ Wrote(FormHeader \o Chunk(COMM, 1, <<7>>)
                 \o Chunk(SSND, 10, SubHeader \o <<1, 255>>)
                 \o Chunk(SSND, 9, SubHeader \o <<255>>))
    /\ offset = 21
    /\ conv_audio_data = <<1, 255>>


(* C13: when the file the engine wrote is AIFF and the chunk walk reaches  *)
(* no SSND chunk, generate_speech for pyttsx3 ends by raising: it returns  *)
(* no bytes (no substitute audio, not the AIFF bytes), the temporary file  *)
(* is gone, and synthesis was entered exactly once for the request.        *)
C13_ExtractionFailurePropagates ==
    (/\ gs_pc \in {"returned", "raised"}
     /\ gs_req.provider = "pyttsx3"
     /\ engine_out.mode = "write"
     /\ Slice(Written, 0, 4) = FORM
     /\ \A c \in WalkPositions(Written, 12) : Slice(Written, c, c + 4) # SSND) =>
        /\ gs_pc = "raised"
        /\ gs_result.kind = "error"
        /\ gs_result.data = <<>>
        /\ gs_result.msg = <<"pyttsx3 error", "AIFF to WAV conversion failed",
                             "No sound data found in AIFF file">>
        /\ temp_exists = FALSE
        /\ Cardinality({i \in 1..Len(synth_calls) : synth_calls[i] = "pyttsx3"}) = 1

\* a direct request whose AIFF file holds two COMM chunks and no SSND chunk
C13_Witness ==
    /\ gs_pc = "raised"
    /\ gs_caller = "direct"
    /\ gs_req.provider = "pyttsx3"
    /\ Wrote(FormHeader \o Chunk(COMM, 1, <<7>>) \o Chunk(COMM, 0, <<>>))
    /\ gs_result.kind = "error"
    /\ synth_calls = <<"pyttsx3">>

(* C15: once the constructor has returned, get_available_providers is the  *)
(* list, in the order openai, google, pyttsx3 and without repetition, of   *)
(* the providers whose initializer did not raise; all three initializers   *)
(* ran whichever of them raised, and the raising of an initializer never   *)
(* makes the constructor raise.                                            *)
C15_AvailableAreInitialized ==
    /\ mgr_pc = "ready" =>
           /\ {GetAvailableProviders[i] : i \in 1..Len(GetAvailableProviders)}
                  = {"openai", "google", "pyttsx3"} \ init_raises
           /\ \A i, j \in 1..Len(GetAvailableProviders) :
                  i < j => \E m, n \in 1..3 :
                               /\ m < n
                               /\ <<"openai", "google", "pyttsx3">>[m] = GetAvailableProviders[i]
                               /\ <<"openai", "google", "pyttsx3">>[n] = GetAvailableProviders[j]
    /\ mgr_pc \in {"ready", "broken"} =>
           /\ Len(init_log) = 3
           /\ \A i \in 1..3 :
                  /\ init_log[i][1] = <<"openai", "google", "pyttsx3">>[i]
                  /\ init_log[i][2] = IF init_log[i][1] \in init_raises THEN "failed" ELSE "ok"
    /\ mgr_pc = "broken" => mkdir_raises

\* the first initializer raised, the other two ran and are available
C15_Witness ==
    /\ mgr_pc = "ready"
    /\ init_raises = {"openai"}
    /\ GetAvailableProviders = <<"google", "pyttsx3">>
    /\ init_log = <<<<"openai", "failed">>, <<"google", "ok">>, <<"pyttsx3", "ok">>>>

(* C16: a generate_speech call for a provider that is not active ends by   *)
(* raising 'Provider <name> not available' with the language mapping never *)
(* consulted and no synthesis entered; a call for an active provider gets  *)
(* past the lookup without a KeyError, with the mapped code when the       *)
(* provider's table has the language and the language itself otherwise.    *)
C16_UnavailableProviderRejected ==
    /\ (gs_pc \notin {"idle", "check"} /\ ~InSeq(active_providers, gs_req.provider)) =>
           /\ gs_pc = "raised"
           /\ gs_result.kind = "error"
           /\ gs_result.msg = <<"Provider", gs_req.provider, "not available">>
           /\ lang_code = "none"
           /\ ~InSeq(synth_calls, gs_req.provider)
           /\ pc = "idle"
    /\ (gs_pc \notin {"idle", "check"} /\ InSeq(active_providers, gs_req.provider)) =>
           /\ gs_req.provider \in {"openai", "google", "pyttsx3"}
           /\ lang_code =
                  IF gs_req.language \in {"be", "pl", "lt", "lv", "et", "en"}
                  THEN LanguageMappingTable[gs_req.provider][gs_req.language]
                  ELSE gs_req.language
           /\ gs_result.kind = "error" => gs_result.msg[1] # "KeyError"

\* a direct request for openai while its initializer had raised
C16_Witness ==
    /\ gs_pc = "raised"
    /\ gs_caller = "direct"
    /\ gs_req = [provider |-> "openai", language |-> "xx"]
    /\ "openai" \in init_raises
    /\ gs_result.msg = <<"Provider", "openai", "not available">>
    /\ lang_code = "none"
    /\ synth_calls = <<>>

(* C17: in both comparison loops the results hold, at every turn, one      *)
(* entry for each provider already tried, in the order of the available    *)
(* providers, and at the end one entry for each available provider; the   *)
(* entry of a provider whose generate_speech raised is 'Error: ' followed  *)
(* by the message, that of one that returned is its audio, and storing an  *)
(* entry leaves the earlier entries in place.                              *)
C17_OneEntryPerProvider ==
    /\ (cmp_pc = "loop" /\ gs_pc = "idle") =>
           DictKeys(cmp_results) \o cmp_todo = GetAvailableProviders
    /\ cmp_pc = "done" => DictKeys(cmp_results) = GetAvailableProviders
    /\ cmp_pc \in {"loop", "done"} =>
           \A i \in 1..Len(cmp_results) :
               \/ /\ cmp_results[i][2].kind = "error"
                  /\ Head(cmp_results[i][2].text) = "Error"
               \/ /\ cmp_results[i][2].kind = IF cmp_api = "api_tts" THEN "base64" ELSE "audio"
                  /\ cmp_results[i][2].data # <<>>
    /\ (cmp_pc = "loop" /\ gs_pc = "idle" /\ cmp_results # <<>>) =>
           LET last == cmp_results[Len(cmp_results)]
           IN  /\ last[1] = gs_req.provider
               /\ gs_result.kind = "error" =>
                      /\ last[2].kind = "error"
                      /\ last[2].text = <<"Error">> \o gs_result.msg
               /\ gs_result.kind = "ok" =>
                      /\ last[2].kind # "error"
                      /\ last[2].data = gs_result.data

\* the loop ended with an error entry between two audio entries
C17_Witness ==
    /\ cmp_pc = "done"
    /\ GetAvailableProviders = <<"openai", "google", "pyttsx3">>
    /\ Len(cmp_results) = 3
    /\ cmp_results[1][2].kind # "error"
    /\ cmp_results[2][2].kind = "error"
    /\ cmp_results[3][2].kind # "error"


(* C14: when several conversions run at once on one manager, whatever the  *)
(* interleaving, every call that has ended holds the result the same call  *)
(* gives when it runs alone on its buffer, every call still walking is at  *)
(* an offset its own buffer leads to, the input buffers are untouched and  *)
(* active_providers, language_mapping and supported_languages are as the  *)
(* constructor left them.                                                  *)
C14_ConversionsIndependent ==
    /\ \A c \in Calls :
           /\ cv_pc[c] = "done" => cv_out[c] = ConvertAiffToWav(cv_in[c])
           /\ cv_pc[c] = "walk" => cv_offset[c] \in WalkPositions(cv_in[c], 12) \cup
                                       {WalkFrom(cv_in[c], 12).at}
    /\ cv_pc # [c \in Calls |-> "idle"] =>
           /\ active_providers = <<"openai", "google", "pyttsx3">>
           /\ language_mapping = LanguageMappingTable
           /\ supported_languages = SupportedLanguagesTable

\* call 1 has converted its buffer while call 2 is in the middle of its walk
C14_Witness ==
    /\ cv_in[1] = WrapAsMinimalAiff(<<1, 255>>)
    /\ cv_pc[1] = "done"
    /\ cv_out[1] = Returned(EncodeWav(<<1, 255>>))
    /\ cv_in[2] = FormHeader \o Chunk(COMM, 1, <<7>>) \o Chunk(SSND, 10, SubHeader \o <<3, 4>>)
    /\ cv_pc[2] = "walk"
    /\ cv_offset[2] = 21


(* C18: whatever the order of the HTTP and WebSocket handlers, at most one *)
(* TTSProviderManager is ever constructed, the global holds it from then   *)
(* on, and every handler to which initialize_services returned holds that  *)
(* one instance.                                                           *)
C18_SingleManager ==
    /\ instances <= 1
    /\ tts_manager = instances
    /\ \A c \in Conns : ws_mgr[c] # 0 => ws_mgr[c] = 1
    /\ \A c \in Conns : ws_pc[c] \in {"welcome", "recv", "process", "send"} => ws_mgr[c] = 1
    /\ http_got \subseteq {1}
    /\ http_last = "ok" => http_got = {1}

\* two WebSocket handlers and an HTTP handler hold the only instance
C18_Witness ==
    /\ instances = 1
    /\ \A c \in Conns : ws_mgr[c] = 1
    /\ http_got = {1}

\* the responses among the messages sent on connection c
Responses(c) == {i \in 1..Len(ws_sent[c]) : ws_sent[c][i][1] = "response"}

\* the welcome is first and precedes every read; the i-th response answers
\* the i-th message and goes out before the next message is read
InOrder(c) ==
    /\ ws_sent[c] # <<>> => ws_sent[c][1] = <<"system_message", 0>>
    /\ ws_received[c] # <<>> => ws_sent[c] # <<>>
    /\ \A i \in 2..Len(ws_sent[c]) : ws_sent[c][i] = <<"response", i - 1>>
    /\ Cardinality(Responses(c)) <= Len(ws_received[c])
    /\ Len(ws_received[c]) - Cardinality(Responses(c)) <= 1

(* C19 as stated: the welcome first and before any read, then exactly one  *)
(* response per message received, each sent before the next read: when the *)
(* handler waits for a message or has ended, every message received has    *)
(* its response.                                                           *)
C19_OneResponsePerMessage_Original ==
    \A c \in Conns :
        /\ InOrder(c)
        /\ ws_pc[c] \in {"recv", "ended"} =>
               Cardinality(Responses(c)) = Len(ws_received[c])

(* C19: the welcome is the first message sent and precedes every read; the *)
(* i-th response answers the i-th message and is sent before the next read; *)
(* while the handler waits for a message every message received has its    *)
(* response; a handler that has ended lacks at most the response to its     *)
(* last message, and a message that lines 89-98 reject is never answered:   *)
(* it ends the handler.                                                    *)
C19_OneResponsePerMessage ==
    \A c \in Conns :
        /\ InOrder(c)
        /\ ws_pc[c] = "recv" => Cardinality(Responses(c)) = Len(ws_received[c])
        /\ \A i \in 1..Len(ws_received[c]) :
               ws_received[c][i] = "malformed" =>
                   /\ i = Len(ws_received[c])
                   /\ ws_pc[c] = "ended"
                   /\ Cardinality(Responses(c)) = i - 1

\* one message answered, then a malformed one that ended the handler
C19_Witness ==
    /\ ws_pc[1] = "ended"
    /\ ws_received[1] = <<"object", "malformed">>
    /\ ws_sent[1] = <<<<"system_message", 0>>, <<"response", 1>>>>

(* C20: active_connections holds, without repetition, exactly the          *)
(* connections that were accepted and whose handler has not ended.          *)
C20_ActiveConnectionsExact ==
    /\ \A i, j \in 1..Len(active_connections) :
           i # j => active_connections[i] # active_connections[j]
    /\ \A c \in Conns :
           InSeq(active_connections, c) <=> ws_pc[c] \in {"welcome", "recv", "process", "send"}


(* C21: the chunk walk ends on every file: a turn of the loop either       *)
(* leaves it or moves the cursor forward by at least 8, a cursor at or     *)
(* beyond length - 8 ends the loop at once, and every call that entered    *)
(* the walk leaves it, chunks of declared size 0 included.                 *)
C21_WalkTerminates ==
    /\ [][/\ (pc = "walk" /\ pc' = "walk") => offset' >= offset + 8
          /\ (pc = "walk" /\ offset >= Len(audio_data) - 8) => pc' = "cleanup"]_vars
    /\ (pc = "walk") ~> (pc \in {"done", "failed"})

\* the walk went past a chunk of declared size 0 and found the SSND chunk
C21_Witness ==
    /\ pc = "done"
    /\ Wrote(FormHeader \o Chunk(COMM, 0, <<>>) \o Chunk(SSND, 9, SubHeader \o <<1>>))
    /\ offset = 20

(* C22: the first chunk header is read at offset 12, and after a chunk     *)
(* that is not SSND read at c with declared size n the next header is read *)
(* at exactly c + 8 + n, for odd n as for even n.                          *)
C22_NoPadding ==
    [][/\ (pc = "sniff" /\ pc' = "walk") => offset' = 12
       /\ (pc = "walk" /\ pc' = "walk") =>
              /\ Slice(audio_data, offset, offset + 4) # SSND
              /\ offset' = offset + 8 + UnpackBE32(Slice(audio_data, offset + 4, offset + 8))]_vars

\* after a chunk of declared size 1 at offset 12 the cursor is at 21
C22_Witness ==
    /\ pc = "walk"
    /\ offset = 21
    /\ Slice(audio_data, 12, 16) = COMM
    /\ UnpackBE32(Slice(audio_data, 16, 20)) = 1

(* C23: when the call has returned or raised, the temporary file does not  *)
(* exist, whichever way the call went; and the deletions never spoil a     *)
(* success: a file tagged RIFF, or tagged FORM with an SSND chunk on the   *)
(* walk, ends in a return.                                                 *)
C23_TempFileRemoved ==
    /\ Terminal => (~temp_exists /\ temp_content = <<>>)
    /\ pc = "done" => result.kind = "ok"
    /\ (Terminal /\ engine_out.mode = "write" /\ Slice(Written, 0, 4) = RIFF) => pc = "done"
    /\ (/\ Terminal
        /\ engine_out.mode = "write"
        /\ Slice(Written, 0, 4) = FORM
        /\ \E c \in WalkPositions(Written, 12) : Slice(Written, c, c + 4) = SSND) => pc = "done"

\* the engine raised after the file had been created; the file is gone
C23_Witness ==
    /\ pc = "failed"
    /\ engine_out.mode = "raise"
    /\ ~temp_exists
    /\ result.kind = "error"

(* C24: for every file that starts with "FORM", whatever its length, the   *)
(* conversion returns WAV bytes or fails with 'No sound data found in AIFF *)
(* file', and every chunk header the walk decodes lies wholly inside the   *)
(* buffer.                                                                 *)
C24_HeadersInsideBuffer ==
    (engine_out.mode = "write" /\ Slice(Written, 0, 4) = FORM) =>
        /\ (pc = "walk" /\ WalkStep(audio_data, offset) # "exhausted") =>
               /\ offset + 8 <= Len(audio_data)
               /\ Len(Slice(audio_data, offset + 4, offset + 8)) = 4
        /\ Terminal =>
               \/ /\ result.kind = "ok"
                  /\ Slice(result.data, 0, 4) = RIFF
                  /\ Len(result.data) >= 44
               \/ /\ result.kind = "error"
                  /\ result.msg = <<"pyttsx3 error", "AIFF to WAV conversion failed",
                                    "No sound data found in AIFF file">>

\* a 19-byte file that ends inside its first chunk header
C24_Witness ==
    /\ pc = "failed"
    /\ Wrote(FormHeader \o SubSeq(Chunk(SSND, 8, <<>>), 1, 7))
    /\ offset = 12
    /\ result.msg = <<"pyttsx3 error", "AIFF to WAV conversion failed",
                      "No sound data found in AIFF file">>


(* C25: process_message always ends by returning a dict, of type           *)
(* 'agent_response' or 'error'.  The user entry is appended before         *)
(* anything else is done; a call that returns 'agent_response' has added   *)
(* the user entry and then the agent entry, a call that returns 'error'    *)
(* has added the user entry alone.                                         *)
C25_ProcessMessageReturns ==
    LET h == conversation_history
    IN  /\ pm_pc \in {"respond", "llm", "speech", "write", "returned"} =>
               /\ Len(h) >= hist_before + 1
               /\ h[hist_before + 1] = [role |-> "user", content |-> pm_text]
        /\ pm_pc \in {"respond", "llm", "speech", "write"} => Len(h) = hist_before + 1
        /\ pm_pc = "returned" =>
               /\ pm_result.type \in {"agent_response", "error"}
               /\ pm_result.type = "agent_response" =>
                      /\ Len(h) = hist_before + 2
                      /\ h[hist_before + 2] = [role |-> "agent", content |-> pm_result.text]
               /\ pm_result.type = "error" => Len(h) = hist_before + 1

\* the second call on an agent failed after the first had succeeded
C25_Witness ==
    /\ pm_pc = "returned"
    /\ pm_result.type = "error"
    /\ hist_before = 2
    /\ Len(conversation_history) = 3
    /\ conversation_history[2].role = "agent"

(* C26 as stated: _generate_llm_response never raises; a failed LLM call   *)
(* gives the fallback reply for the same message and language; without a   *)
(* key no LLM call is attempted.                                           *)
C26_LlmResponseNeverRaises_Original ==
    /\ llm_result.kind # "error"
    /\ (llm_result.kind = "ok" /\ llm_result.value[1] = "fallback") =>
           llm_result.value = <<"fallback", ag_language, pm_text[3]>>
    /\ ~openai_available => llm_attempts = 0

(* C26: for a message that is a str, _generate_llm_response never raises:  *)
(* a failed LLM call gives the fallback reply for the same message and     *)
(* language.  It raises only when the message is no str and the LLM call   *)
(* failed, and process_message then returns an error dict.  Without a key  *)
(* no LLM call is attempted, no message list is built and the reply that   *)
(* goes on to synthesis is the fallback reply.                             *)
C26_LlmResponseFallsBack ==
    /\ pm_text[2] = "str" => llm_result.kind # "error"
    /\ (llm_result.kind = "ok" /\ llm_result.value[1] = "fallback") =>
           /\ llm_result.value = <<"fallback", ag_language, pm_text[3]>>
           /\ llm_attempts = 1
    /\ llm_result.kind = "error" =>
           /\ pm_text[2] = "other"
           /\ llm_attempts = 1
           /\ pm_pc = "returned"
           /\ pm_result.type = "error"
    /\ ~openai_available =>
           /\ llm_attempts = 0
           /\ llm_messages = <<>>
           /\ llm_result.kind = "none"
           /\ pm_pc \in {"speech", "write"} =>
                  pm_result.text = <<"fallback", ag_language, pm_text[3]>>

\* the LLM call failed and the Belarusian fallback reply came back
C26_Witness ==
    /\ openai_available
    /\ ag_language = "be"
    /\ pm_pc = "speech"
    /\ llm_attempts = 1
    /\ llm_result = [kind |-> "ok", value |-> <<"fallback", "be", pm_text[3]>>]

(* C27: the list given to the LLM is the system message, then the last 10  *)
(* history entries (all of them when there are fewer) in their order, user *)
(* entries as 'user' and agent entries as 'assistant', then the current    *)
(* message; the last history entry is the current message, so the list     *)
(* ends with it twice; on an agent that had no history the list is the     *)
(* system message and the current message twice.                           *)
C27_LlmMessageList ==
    (pm_pc \in {"llm", "speech", "write"} /\ llm_attempts = 1) =>
        LET m == llm_messages
            h == conversation_history
            n == IF Len(h) < 10 THEN Len(h) ELSE 10
        IN  /\ Len(m) = n + 2
            /\ m[1] = <<"system", <<"prompt", ag_language, 0>>>>
            /\ \A i \in 1..n :
                   /\ m[1 + i][2] = h[Len(h) - n + i].content
                   /\ m[1 + i][1] = IF h[Len(h) - n + i].role = "user" THEN "user"
                                    ELSE "assistant"
            /\ m[Len(m)] = <<"user", pm_text>>
            /\ m[Len(m) - 1] = <<"user", pm_text>>
            /\ hist_before = 0 =>
                   m = <<<<"system", <<"prompt", ag_language, 0>>>>,
                         <<"user", pm_text>>, <<"user", pm_text>>>>

\* the sixth call on one agent: eleven entries, the oldest is left out
C27_Witness ==
    /\ pm_pc = "llm"
    /\ Len(conversation_history) = 11
    /\ Len(llm_messages) = 12
    /\ llm_messages[2] = <<"assistant", conversation_history[2].content>>

----------------------------------------------------------------------------
(* C28 *)

\* the order of the categories as the specification gives it
C28_Order ==
    <<"greeting", "provider_comparison", "multilingual", "pricing", "technical_details",
      "demo_request", "closing">>
C28_FallbackOrder == <<"greeting", "pricing", "multilingual">>

\* w occurs in t at some position
C28_Occurs(w, t) == \E i \in 0..(Len(t) - Len(w)) : SubSeq(t, i + 1, i + Len(w)) = w

\* some keyword of category c occurs in t
C28_Hit(rules, c, t) ==
    \E k \in DOMAIN rules :
        /\ rules[k].category = c
        /\ \E w \in rules[k].keywords : C28_Occurs(w, t)

\* got is the first category of the order with a keyword in t, and the
\* default exactly when no category has one
C28_FirstInOrder(order, rules, t, default, got) ==
    IF \E k \in DOMAIN order : C28_Hit(rules, order[k], t)
    THEN \E k \in DOMAIN order :
            /\ C28_Hit(rules, order[k], t)
            /\ \A j \in 1..(k - 1) : ~C28_Hit(rules, order[j], t)
            /\ got = order[k]
    ELSE got = default

\* C28: _analyze_intent returns the first category, in the order greeting,
\* provider_comparison, multilingual, pricing, technical_details,
\* demo_request, closing, that has a keyword occurring as a substring of the
\* lower-cased text, and general_inquiry exactly when no keyword occurs; a
\* text containing "which" is therefore a greeting, because "which" contains
\* "hi".  The fallback responder takes the first of greeting, pricing,
\* multilingual in the same way, and its default branch otherwise.
C28_OrderedFirstMatch ==
    /\ intent # "none" =>
        C28_FirstInOrder(C28_Order, IntentRules, Lower(in_text), "general_inquiry", intent)
    /\ fb_category # "none" =>
        C28_FirstInOrder(C28_FallbackOrder, FallbackRules, Lower(in_text), "default",
                         fb_category)
    /\ (intent # "none" /\ C28_Occurs(<<"w", "h", "i", "c", "h">>, Lower(in_text))) =>
        intent = "greeting"

\* the text "which" was classified by both functions
C28_Witness ==
    /\ in_text = <<"w", "h", "i", "c", "h">>
    /\ intent = "greeting"
    /\ fb_category = "greeting"

====
